---- MODULE Spec2Model ----
(***************************************************************************)
(* Model of the namesurfer subdomain registry: the API route handlers      *)
(* (pages/api/subdomains/index.js, [id].js, check.js), the validators      *)
(* (lib/validation.js), the PowerDNS client (lib/powerdns-client.js) and   *)
(* the in-memory rate limiter (lib/rate-limit.js).                         *)
(*                                                                         *)
(* JavaScript strings are sequences of one-character strings.  A request   *)
(* field is a JS value [t, v]: t = "string" with the characters in v, or   *)
(* t = "undefined" (field absent) with v = << >>.                          *)
(***************************************************************************)
EXTENDS Integers, Sequences, FiniteSets, TLC

\* ------------------------------------------------------------------ bounds
MaxRequests == 3
MaxSeqRequests == 3
MaxIds == 2
MaxApiRequests == 4
MaxCreateRequests == 2
MaxDnsCalls == 3
MaxLabelCalls == 2
MaxInputLen == 4
MaxListCreates == 3
MaxWalkRequests == 7
MaxTicks == 1
MaxRateRequests == 7
MaxWaits == 2
MaxRecordRequests == 3
MaxLimiterCalls == 5
MaxClock == 3

\* ------------------------------------------------------- program constants
MinLabelLen == 3
MaxLabelLen == 63
MaxFqdnPartLen == 63
RateLimitMax == 5
RateLimitWindowMs == 900000

\* ----------------------------------------------------------------- strings
Undefined == [t |-> "undefined", v |-> << >>]
Str(s) == [t |-> "string", v |-> s]

\* JS truthiness of a request field: undefined and "" are falsy
Truthy(x) == ~(x.t = "undefined" \/ (x.t = "string" /\ x.v = << >>))
IsString(x) == x.t = "string"

IsSpace(c) == c \in {" ", "\t", "\n"}

ToLowerChar(c) ==
  CASE c = "A" -> "a" [] c = "B" -> "b" [] c = "C" -> "c" [] c = "D" -> "d"
    [] c = "E" -> "e" [] c = "F" -> "f" [] c = "G" -> "g" [] c = "H" -> "h"
    [] c = "I" -> "i" [] c = "J" -> "j" [] c = "K" -> "k" [] c = "L" -> "l"
    [] c = "M" -> "m" [] c = "N" -> "n" [] c = "O" -> "o" [] c = "P" -> "p"
    [] c = "Q" -> "q" [] c = "R" -> "r" [] c = "S" -> "s" [] c = "T" -> "t"
    [] c = "U" -> "u" [] c = "V" -> "v" [] c = "W" -> "w" [] c = "X" -> "x"
    [] c = "Y" -> "y" [] c = "Z" -> "z" [] OTHER -> c

ToLowerCase(s) == [i \in 1..Len(s) |-> ToLowerChar(s[i])]

RECURSIVE TrimStart(_)
TrimStart(s) ==
  IF s # << >> /\ IsSpace(Head(s)) THEN TrimStart(Tail(s)) ELSE s

RECURSIVE TrimEnd(_)
TrimEnd(s) ==
  IF s # << >> /\ IsSpace(s[Len(s)]) THEN TrimEnd(SubSeq(s, 1, Len(s) - 1)) ELSE s

Trim(s) == TrimEnd(TrimStart(s))

StartsWith(s, pre) == Len(s) >= Len(pre) /\ SubSeq(s, 1, Len(pre)) = pre
EndsWith(s, suf) ==
  Len(s) >= Len(suf) /\ SubSeq(s, Len(s) - Len(suf) + 1, Len(s)) = suf

LowerLetters ==
  {"a","b","c","d","e","f","g","h","i","j","k","l","m",
   "n","o","p","q","r","s","t","u","v","w","x","y","z"}
Digits == {"0","1","2","3","4","5","6","7","8","9"}

\* s.split(sep) for a one-character separator
RECURSIVE SplitAcc(_, _, _)
SplitAcc(s, sep, cur) ==
  IF s = << >> THEN << cur >>
  ELSE IF Head(s) = sep THEN << cur >> \o SplitAcc(Tail(s), sep, << >>)
  ELSE SplitAcc(Tail(s), sep, Append(cur, Head(s)))

Split(s, sep) == SplitAcc(s, sep, << >>)

DigitVal(c) ==
  CASE c = "0" -> 0 [] c = "1" -> 1 [] c = "2" -> 2 [] c = "3" -> 3
    [] c = "4" -> 4 [] c = "5" -> 5 [] c = "6" -> 6 [] c = "7" -> 7
    [] c = "8" -> 8 [] c = "9" -> 9 [] OTHER -> 0

RECURSIVE DecVal(_)
DecVal(s) ==
  IF s = << >> THEN 0 ELSE 10 * DecVal(SubSeq(s, 1, Len(s) - 1)) + DigitVal(s[Len(s)])

\* ------------------------------------------------------------- validation
Reserved ==
  { <<"w","w","w">>, <<"m","a","i","l">>, <<"f","t","p">>,
    <<"a","d","m","i","n">>, <<"r","o","o","t">>, <<"a","p","i">>,
    <<"n","s","1">>, <<"n","s","2">> }

Invalid(msg) == [valid |-> FALSE, value |-> << >>, error |-> msg]
Valid(val) == [valid |-> TRUE, value |-> val, error |-> "null"]

\* a validator that checks the normalized name and returns the name as typed
validateSubdomainName_asTyped(subdomain) ==
  IF ~Truthy(subdomain) \/ ~IsString(subdomain) THEN Invalid("Subdomain name is required")
  ELSE LET trimmed == ToLowerCase(Trim(subdomain.v)) IN
    IF Len(trimmed) < MinLabelLen \/ Len(trimmed) > MaxLabelLen
      THEN Invalid("Subdomain must be between 3 and 63 characters")
    ELSE IF ~(\A i \in 1..Len(trimmed) : trimmed[i] \in LowerLetters \cup Digits \cup {"-"})
      THEN Invalid("Subdomain can only contain lowercase letters, numbers, and hyphens")
    ELSE IF trimmed[1] = "-" \/ trimmed[Len(trimmed)] = "-"
      THEN Invalid("Subdomain cannot start or end with a hyphen")
    ELSE IF trimmed \in Reserved
      THEN Invalid("This subdomain name is reserved")
    ELSE Valid(Trim(subdomain.v))

\* a validator that measures the name as typed, before trimming it
validateSubdomainName_untrimmedLength(subdomain) ==
  IF ~Truthy(subdomain) \/ ~IsString(subdomain) THEN Invalid("Subdomain name is required")
  ELSE LET trimmed == ToLowerCase(Trim(subdomain.v)) IN
    IF Len(subdomain.v) < MinLabelLen \/ Len(subdomain.v) > MaxLabelLen
      THEN Invalid("Subdomain must be between 3 and 63 characters")
    ELSE IF ~(\A i \in 1..Len(trimmed) : trimmed[i] \in LowerLetters \cup Digits \cup {"-"})
      THEN Invalid("Subdomain can only contain lowercase letters, numbers, and hyphens")
    ELSE IF trimmed = << >> \/ trimmed[1] = "-" \/ trimmed[Len(trimmed)] = "-"
      THEN Invalid("Subdomain cannot start or end with a hyphen")
    ELSE IF trimmed \in Reserved
      THEN Invalid("This subdomain name is reserved")
    ELSE Valid(trimmed)

validateSubdomainName(subdomain) ==
  IF ~Truthy(subdomain) \/ ~IsString(subdomain) THEN Invalid("Subdomain name is required")
  ELSE LET trimmed == ToLowerCase(Trim(subdomain.v)) IN
    IF Len(trimmed) < MinLabelLen \/ Len(trimmed) > MaxLabelLen
      THEN Invalid("Subdomain must be between 3 and 63 characters")
    ELSE IF ~(\A i \in 1..Len(trimmed) : trimmed[i] \in LowerLetters \cup Digits \cup {"-"})
      THEN Invalid("Subdomain can only contain lowercase letters, numbers, and hyphens")
    ELSE IF trimmed[1] = "-" \/ trimmed[Len(trimmed)] = "-"
      THEN Invalid("Subdomain cannot start or end with a hyphen")
    ELSE IF trimmed \in Reserved
      THEN Invalid("This subdomain name is reserved")
    ELSE Valid(trimmed)

\* validator.isIP(str, 4): four dot-separated decimal segments 0..255,
\* no leading zeros, nothing else
IsIPv4Segment(p) ==
  /\ Len(p) \in 1..3
  /\ \A i \in 1..Len(p) : p[i] \in Digits
  /\ (Len(p) > 1 => p[1] # "0")
  /\ DecVal(p) <= 255

isIP4(s) ==
  LET parts == Split(s, ".") IN
    Len(parts) = 4 /\ \A i \in 1..4 : IsIPv4Segment(parts[i])

\* validator.isFQDN(str) with its default options (require_tld, no trailing
\* dot, no underscores, no numeric tld), restricted to ASCII
IsFqdnPart(p) ==
  /\ Len(p) \in 1..MaxFqdnPartLen
  /\ \A i \in 1..Len(p) : ToLowerChar(p[i]) \in LowerLetters \cup Digits \cup {"-"}
  /\ p[1] # "-" /\ p[Len(p)] # "-"

isFQDN(s) ==
  LET parts == Split(s, ".")
      tld == parts[Len(parts)]
  IN /\ Len(parts) >= 2
     /\ Len(tld) >= 2
     /\ \A i \in 1..Len(tld) : ToLowerChar(tld[i]) \in LowerLetters
     /\ \A i \in 1..Len(parts) : IsFqdnPart(parts[i])

validateIP(ip) ==
  IF ~Truthy(ip) \/ ~IsString(ip) THEN Invalid("IP address is required")
  ELSE IF ~isIP4(ip.v) THEN Invalid("Invalid IPv4 address")
  ELSE Valid(Trim(ip.v))

HttpScheme == <<"h","t","t","p",":","/","/">>
HttpsScheme == <<"h","t","t","p","s",":","/","/">>

\* str.replace(/^https?:\/\//, '')
StripScheme(s) ==
  IF StartsWith(s, HttpsScheme) THEN SubSeq(s, Len(HttpsScheme) + 1, Len(s))
  ELSE IF StartsWith(s, HttpScheme) THEN SubSeq(s, Len(HttpScheme) + 1, Len(s))
  ELSE s

\* str.replace(/\/$/, '')
StripTrailingSlash(s) ==
  IF EndsWith(s, <<"/">>) THEN SubSeq(s, 1, Len(s) - 1) ELSE s

validateURL(url) ==
  IF ~Truthy(url) \/ ~IsString(url) THEN Invalid("URL/domain is required")
  ELSE LET trimmed == Trim(url.v) IN
    IF ~isFQDN(StripTrailingSlash(StripScheme(trimmed)))
      THEN Invalid("Invalid domain or URL")
    ELSE Valid(trimmed)


\* ------------------------------------------------------------ environment
ADMIN_EMAIL == "me.sharif.hasan@gmail.com"
POWERDNS_ZONE == <<"n","s",".","t","l","d">>
RecordTtl == 3600

Procs == {1, 2}
Ids == 1..MaxIds

NoUser == [uid |-> "", email |-> "", isAdmin |-> FALSE]

\* adminAuth.verifyIdToken: the identity a bearer token decodes to
ValidTokens == {"tok-u1", "tok-u2", "tok-admin"}
DecodedToken(token) ==
  CASE token = "tok-u1" -> [uid |-> "u1", email |-> "u1@mail.tld"]
    [] token = "tok-u2" -> [uid |-> "u2", email |-> "u2@mail.tld"]
    [] OTHER -> [uid |-> "u0", email |-> ADMIN_EMAIL]

\* a gate that takes any bearer token without verifying it
verifyAuthToken_anyBearer(cred) ==
  IF cred = "none"
    THEN [ok |-> FALSE, error |-> "Unauthorized: No token provided", user |-> NoUser]
  ELSE LET decodedToken == DecodedToken(cred) IN
    [ok |-> TRUE, error |-> "null",
     user |-> [uid |-> decodedToken.uid, email |-> decodedToken.email,
               isAdmin |-> decodedToken.email = ADMIN_EMAIL]]

\* cred: "none" (no Authorization header), or the bearer token
verifyAuthToken(cred) ==
  IF cred = "none"
    THEN [ok |-> FALSE, error |-> "Unauthorized: No token provided", user |-> NoUser]
  ELSE IF cred \notin ValidTokens
    THEN [ok |-> FALSE, error |-> "Unauthorized: Invalid token", user |-> NoUser]
  ELSE LET decodedToken == DecodedToken(cred) IN
    [ok |-> TRUE, error |-> "null",
     user |-> [uid |-> decodedToken.uid, email |-> decodedToken.email,
               isAdmin |-> decodedToken.email = ADMIN_EMAIL]]

\* a limiter that lets one more request through than maxRequests
checkRateLimit_offByOne(map, identifier, maxRequests, windowMs, t) ==
  IF identifier \notin DOMAIN map
    THEN [allowed |-> TRUE,
          map |-> [k \in DOMAIN map \cup {identifier} |->
                     IF k = identifier THEN [count |-> 1, resetTime |-> t + windowMs]
                     ELSE map[k]]]
  ELSE IF t > map[identifier].resetTime
    THEN [allowed |-> TRUE,
          map |-> [map EXCEPT ![identifier] = [count |-> 1, resetTime |-> t + windowMs]]]
  ELSE IF map[identifier].count <= maxRequests
    THEN [allowed |-> TRUE,
          map |-> [map EXCEPT ![identifier].count = @ + 1]]
  ELSE [allowed |-> FALSE, map |-> map]

\* a limiter that counts the requests of every identifier under one key
checkRateLimit_sharedKey(map, identifier, maxRequests, windowMs, t) ==
  IF "" \notin DOMAIN map
    THEN [allowed |-> TRUE,
          map |-> [k \in DOMAIN map \cup {""} |->
                     IF k = "" THEN [count |-> 1, resetTime |-> t + windowMs]
                     ELSE map[k]]]
  ELSE IF t > map[""].resetTime
    THEN [allowed |-> TRUE,
          map |-> [map EXCEPT ![""] = [count |-> 1, resetTime |-> t + windowMs]]]
  ELSE IF map[""].count < maxRequests
    THEN [allowed |-> TRUE,
          map |-> [map EXCEPT ![""].count = @ + 1]]
  ELSE [allowed |-> FALSE, map |-> map]

\* the rate-limit Map is a function from the identifiers it holds
checkRateLimit(map, identifier, maxRequests, windowMs, t) ==
  IF identifier \notin DOMAIN map
    THEN [allowed |-> TRUE,
          map |-> [k \in DOMAIN map \cup {identifier} |->
                     IF k = identifier THEN [count |-> 1, resetTime |-> t + windowMs]
                     ELSE map[k]]]
  ELSE IF t > map[identifier].resetTime
    THEN [allowed |-> TRUE,
          map |-> [map EXCEPT ![identifier] = [count |-> 1, resetTime |-> t + windowMs]]]
  ELSE IF map[identifier].count < maxRequests
    THEN [allowed |-> TRUE,
          map |-> [map EXCEPT ![identifier].count = @ + 1]]
  ELSE [allowed |-> FALSE, map |-> map]

\* a cleanup that removes every entry
cleanupRateLimit_everything(map, t) == << >>

\* the Map after cleanupRateLimit at time t: the expired entries are deleted
cleanupRateLimit(map, t) ==
  [k \in {key \in DOMAIN map : ~(t > map[key].resetTime)} |-> map[k]]

\* ------------------------------------------------------------ DNS client
fqdn(subdomain) == subdomain \o <<".">> \o POWERDNS_ZONE

\* a zone that adds the record of a REPLACE to the records the rrset has
ReplaceRRSet_append(zone, name, type, content) ==
  zone \cup {[name |-> name, type |-> type, ttl |-> RecordTtl, content |-> content]}

\* the rrsets PATCH of the zone: REPLACE and DELETE of one (name, type)
ReplaceRRSet(zone, name, type, content) ==
  {r \in zone : ~(r.name = name /\ r.type = type)}
    \cup {[name |-> name, type |-> type, ttl |-> RecordTtl, content |-> content]}

DeleteRRSet(zone, name, type) ==
  {r \in zone : ~(r.name = name /\ r.type = type)}

\* zone state after a request that the control API answered 2xx
createARecord(zone, subdomain, targetIP) ==
  ReplaceRRSet(zone, fqdn(subdomain), "A", targetIP)

targetWithDot(target) ==
  IF EndsWith(target, <<".">>) THEN target ELSE target \o <<".">>

createCNAMERecord(zone, subdomain, target) ==
  ReplaceRRSet(zone, fqdn(subdomain), "CNAME", targetWithDot(target))

deleteRecord(zone, subdomain, recordType) ==
  DeleteRRSet(zone, fqdn(subdomain), recordType)

\* error.message of a failed client call: a non-2xx answer or a transport error
DnsFailures == {"PowerDNS API error (500): Internal Server Error"}


\* ------------------------------------------------------------------ state
VARIABLES
  store,      \* the 'subdomains' collection: a set of documents, each with its id
  nextId,     \* ids handed out by collection.add so far, plus one
  requests,   \* requests received so far
  dns,        \* the zone of the DNS Directory: a set of rrsets
  rateLimit,  \* the rate limiter's Map: identifier -> [count, resetTime]
  now,        \* Date.now()
  pc,         \* per request slot: the await the handler is suspended at
  loc,        \* per request slot: the handler's local variables
  last,       \* the response just sent (by the last step), or NoEvent
  walk,       \* a client paging through the list: its cursor and its pages
  limiter     \* the calls made to the rate limiter on its own, and their arguments

vars == <<store, nextId, requests, dns, rateLimit, now, pc, loc, last, walk, limiter>>

NoTime == -1

BlankReq ==
  [op |-> "none", cred |-> "none", ip |-> "", name |-> Undefined,
   target |-> Undefined, rtype |-> "undefined", id |-> 0,
   status |-> "undefined", limit |-> Undefined, startAfter |-> 0]

BlankLoc ==
  [req |-> BlankReq, user |-> NoUser, subdomain |-> << >>, target |-> << >>,
   recordType |-> "", ownerId |-> "", readDnsCreated |-> FALSE, id |-> 0,
   dnsCreated |-> FALSE, dnsError |-> "null",
   dnsRequests |-> 0, dnsApplied |-> 0, zoneChanges |-> 0, storeWrites |-> 0,
   failedCall |-> "none", limitNum |-> 0, startDoc |-> {}]

NoEvent ==
  [p |-> 0, op |-> "none", status |-> 0, error |-> "null", loc |-> BlankLoc,
   body |-> {}, available |-> FALSE, reason |-> "null",
   subdomains |-> << >>, hasMore |-> FALSE, lastId |-> 0, message |-> << >>,
   http |-> [kind |-> "none", status |-> 0, body |-> << >>, message |-> << >>]]

\* res.status(status).json({ error }) with the handler's locals l
ErrorResponse(p, op, status, error, l) ==
  [NoEvent EXCEPT !.p = p, !.op = op, !.status = status, !.error = error, !.loc = l]

\* res.status(status).json(document)
DocResponse(p, op, status, l, doc) ==
  [NoEvent EXCEPT !.p = p, !.op = op, !.status = status, !.loc = l, !.body = {doc}]

\* collection.doc(id).get(): the snapshot, empty when the document is missing
Doc(id) == {d \in store : d.id = id}

\* collection.where('subdomainName', '==', name).limit(1).get()
QueryByName(name) == {d \in store : d.subdomainName = name}

\* no client is paging
NoWalk ==
  [active |-> FALSE, cred |-> "none", limit |-> Undefined, cursor |-> 0,
   pages |-> << >>, done |-> FALSE]

\* no call of the limiter on its own: the arguments are those of handlePost
NoLimiter ==
  [maxRequests |-> RateLimitMax, windowMs |-> RateLimitWindowMs, calls |-> << >>]

Init ==
  /\ limiter = NoLimiter
  /\ walk = NoWalk
  /\ store = {}
  /\ nextId = 1
  /\ requests = 0
  /\ dns = {}
  /\ rateLimit = << >>
  /\ now = 0
  /\ pc = [p \in Procs |-> "idle"]
  /\ loc = [p \in Procs |-> BlankLoc]
  /\ last = NoEvent

\* slot p is at this await, and the response of the last step has left
At(p, label) == last = NoEvent /\ pc[p] = label

\* the handler of slot p returns: the response is sent and the slot is free
Return(p, event) ==
  /\ pc' = [pc EXCEPT ![p] = "idle"]
  /\ loc' = [loc EXCEPT ![p] = BlankLoc]
  /\ last' = event
  /\ UNCHANGED <<walk, limiter>>

\* the handler of slot p suspends at its next await
Await(p, label, l) ==
  /\ pc' = [pc EXCEPT ![p] = label]
  /\ loc' = [loc EXCEPT ![p] = l]
  /\ last' = NoEvent
  /\ UNCHANGED <<walk, limiter>>

\* a request arrives
Receive == requests' = requests + 1

\* the catch block of a handler: a store call threw
Throw(p, op, error, l, call) ==
  Return(p, ErrorResponse(p, op, 500, error, [l EXCEPT !.failedCall = call]))

\* the ownership check without the admin exemption
AccessDenied_noAdmin(user, data) == data.userId # user.uid

\* the ownership check of the handlers of one record
AccessDenied(user, data) == ~user.isAdmin /\ data.userId # user.uid

\* --------------------------------------------- POST /api/subdomains (create)
\* a create that validates every target as a domain
PostTargetValidation_asDomain(recordType, targetUrl) == validateURL(targetUrl)

PostTargetValidation(recordType, targetUrl) ==
  IF recordType = "A" THEN validateIP(targetUrl) ELSE validateURL(targetUrl)

\* withAuth, the rate limit and the validations, up to the uniqueness query
PostStart(p, r) ==
  /\ At(p, "idle")
  /\ r.op = "create"
  /\ Receive
  /\ UNCHANGED <<store, nextId, dns, now>>
  /\ LET auth == verifyAuthToken(r.cred)
         limit == checkRateLimit(rateLimit, r.ip, RateLimitMax, RateLimitWindowMs, now)
         recordType == IF r.rtype = "undefined" THEN "A" ELSE r.rtype
         subdomainValidation == validateSubdomainName(r.name)
         targetValidation == PostTargetValidation(recordType, r.target)
         l == [BlankLoc EXCEPT !.req = r, !.user = auth.user]
     IN IF ~auth.ok
          THEN /\ Return(p, ErrorResponse(p, "create", 401, auth.error, l))
               /\ UNCHANGED rateLimit
        ELSE /\ rateLimit' = limit.map
             /\ IF ~limit.allowed
                  THEN Return(p, ErrorResponse(p, "create", 429,
                         "Too many requests. Please try again later.", l))
                ELSE IF ~subdomainValidation.valid
                  THEN Return(p, ErrorResponse(p, "create", 400,
                         subdomainValidation.error, l))
                ELSE IF recordType \notin {"A", "CNAME"}
                  THEN Return(p, ErrorResponse(p, "create", 400,
                         "Invalid record type. Must be A or CNAME.", l))
                ELSE IF ~targetValidation.valid
                  THEN Return(p, ErrorResponse(p, "create", 400,
                         targetValidation.error, l))
                ELSE Await(p, "post_query",
                       [l EXCEPT !.subdomain = subdomainValidation.value,
                                 !.target = targetValidation.value,
                                 !.recordType = recordType])

\* a create that skips the uniqueness pre-check
LabelTaken_unchecked(existingSnapshot) == FALSE

\* !existingSnapshot.empty
LabelTaken(existingSnapshot) == existingSnapshot # {}

\* the uniqueness pre-check
PostQuery(p) ==
  /\ At(p, "post_query")
  /\ UNCHANGED <<store, nextId, requests, dns, rateLimit, now>>
  /\ \/ Throw(p, "create", "Failed to create subdomain request", loc[p], "query")
     \/ IF LabelTaken(QueryByName(loc[p].subdomain))
          THEN Return(p, ErrorResponse(p, "create", 409,
                        "This subdomain is already taken", loc[p]))
          ELSE Await(p, "post_dns", loc[p])

\* the zone after the upsert for a record of this type was answered 2xx
UpsertRecord(zone, recordType, subdomain, target) ==
  IF recordType = "A" THEN createARecord(zone, subdomain, target)
  ELSE IF recordType = "CNAME" THEN createCNAMERecord(zone, subdomain, target)
  ELSE zone

ZoneChange(before, after) == IF before = after THEN 0 ELSE 1

\* an upsert that is sent a second time
UpsertRequests_twice(recordType) == IF recordType \in {"A", "CNAME"} THEN 2 ELSE 0

UpsertRequests(recordType) == IF recordType \in {"A", "CNAME"} THEN 1 ELSE 0

\* an upsert that is sent and not awaited: the handler goes on as if it was done
DnsUpsert_notAwaited(p, next) ==
  /\ UNCHANGED <<store, nextId, requests, rateLimit, now, dns>>
  /\ Await(p, next,
       [loc[p] EXCEPT !.dnsCreated = TRUE, !.dnsError = "null",
                      !.dnsRequests = @ + UpsertRequests(loc[p].recordType)])

\* try { await createARecord / createCNAMERecord } catch { dnsError = message }
DnsUpsert(p, next) ==
  /\ UNCHANGED <<store, nextId, requests, rateLimit, now>>
  /\ \/ /\ dns' = UpsertRecord(dns, loc[p].recordType, loc[p].subdomain, loc[p].target)
        /\ Await(p, next,
             [loc[p] EXCEPT !.dnsCreated = TRUE, !.dnsError = "null",
                            !.dnsRequests = @ + UpsertRequests(loc[p].recordType),
                            !.dnsApplied = @ + UpsertRequests(loc[p].recordType),
                            !.zoneChanges = @ + ZoneChange(dns, dns')])
     \/ /\ loc[p].recordType \in {"A", "CNAME"}
        /\ \E message \in DnsFailures :
             Await(p, next,
               [loc[p] EXCEPT !.dnsCreated = FALSE, !.dnsError = message,
                              !.dnsRequests = @ + 1])
        /\ UNCHANGED dns

PostDns(p) ==
  /\ At(p, "post_dns")
  /\ DnsUpsert(p, "post_add")

\* a create that records the DNS upsert as done whatever its outcome
subdomainData_dnsAssumed(l, t, id) ==
  [id |-> id,
   subdomainName |-> l.subdomain, userEmail |-> l.user.email, userId |-> l.user.uid,
   targetUrl |-> l.target, recordType |-> l.recordType, status |-> "approved",
   dnsCreated |-> TRUE, dnsError |-> "null",
   createdAt |-> t, approvedAt |-> t, updatedAt |-> NoTime]

subdomainData(l, t, id) ==
  [id |-> id,
   subdomainName |-> l.subdomain, userEmail |-> l.user.email, userId |-> l.user.uid,
   targetUrl |-> l.target, recordType |-> l.recordType, status |-> "approved",
   dnsCreated |-> l.dnsCreated, dnsError |-> l.dnsError,
   createdAt |-> t, approvedAt |-> t, updatedAt |-> NoTime]

\* collection.add(subdomainData) and the 201 response
PostAdd(p) ==
  /\ At(p, "post_add")
  /\ UNCHANGED <<requests, dns, rateLimit, now>>
  /\ \/ /\ Throw(p, "create", "Failed to create subdomain request", loc[p], "add")
        /\ UNCHANGED <<store, nextId>>
     \/ LET doc == subdomainData(loc[p], now, nextId) IN
          /\ store' = store \cup {doc}
          /\ nextId' = nextId + 1
          /\ Return(p, DocResponse(p, "create", 201,
                      [loc[p] EXCEPT !.id = nextId, !.storeWrites = @ + 1], doc))


\* ------------------------------------- PATCH /api/subdomains/:id (updateTarget)
\* an update that validates every target as an address
PatchTargetValidation_ipOnly(recordType, targetUrl) == {validateIP(targetUrl)}

PatchTargetValidation(recordType, targetUrl) ==
  IF recordType = "A" THEN {validateIP(targetUrl)}
  ELSE IF recordType = "CNAME" THEN {validateURL(targetUrl)}
  ELSE {}

\* an update that validates the target before it checks the owner
PatchStart_targetFirst(p, r) ==
  /\ At(p, "idle")
  /\ r.op = "update"
  /\ Receive
  /\ UNCHANGED <<store, nextId, dns, rateLimit, now>>
  /\ LET auth == verifyAuthToken(r.cred)
         l == [BlankLoc EXCEPT !.req = r, !.user = auth.user, !.id = r.id]
     IN IF ~auth.ok
          THEN Return(p, ErrorResponse(p, "update", 401, auth.error, l))
        ELSE
          \/ Throw(p, "update", "Failed to update subdomain", l, "get")
          \/ IF Doc(r.id) = {}
               THEN Return(p, ErrorResponse(p, "update", 404, "Subdomain not found", l))
             ELSE LET currentData == CHOOSE d \in Doc(r.id) : TRUE
                      lc == [l EXCEPT !.subdomain = currentData.subdomainName,
                                      !.recordType = currentData.recordType,
                                      !.ownerId = currentData.userId]
                      validation == PatchTargetValidation(currentData.recordType, r.target)
                  IN IF ~Truthy(r.target)
                       THEN Return(p, ErrorResponse(p, "update", 400,
                                     "targetUrl is required", lc))
                     ELSE IF validation = {}
                       THEN Throw(p, "update", "Failed to update subdomain", lc, "validate")
                     ELSE LET targetValidation == CHOOSE v \in validation : TRUE IN
                       IF ~targetValidation.valid
                         THEN Return(p, ErrorResponse(p, "update", 400,
                                       targetValidation.error, lc))
                       ELSE IF AccessDenied(auth.user, currentData)
                         THEN Return(p, ErrorResponse(p, "update", 403, "Access denied", lc))
                       ELSE Await(p, "patch_dns",
                                  [lc EXCEPT !.target = targetValidation.value])

\* withAuth, docRef.get(), the ownership check and the target validation
PatchStart(p, r) ==
  /\ At(p, "idle")
  /\ r.op = "update"
  /\ Receive
  /\ UNCHANGED <<store, nextId, dns, rateLimit, now>>
  /\ LET auth == verifyAuthToken(r.cred)
         l == [BlankLoc EXCEPT !.req = r, !.user = auth.user, !.id = r.id]
     IN IF ~auth.ok
          THEN Return(p, ErrorResponse(p, "update", 401, auth.error, l))
        ELSE
          \/ Throw(p, "update", "Failed to update subdomain", l, "get")
          \/ IF Doc(r.id) = {}
               THEN Return(p, ErrorResponse(p, "update", 404, "Subdomain not found", l))
             ELSE LET currentData == CHOOSE d \in Doc(r.id) : TRUE
                      lc == [l EXCEPT !.subdomain = currentData.subdomainName,
                                      !.recordType = currentData.recordType,
                                      !.ownerId = currentData.userId]
                      validation == PatchTargetValidation(currentData.recordType, r.target)
                  IN IF AccessDenied(auth.user, currentData)
                       THEN Return(p, ErrorResponse(p, "update", 403, "Access denied", lc))
                     ELSE IF ~Truthy(r.target)
                       THEN Return(p, ErrorResponse(p, "update", 400,
                                     "targetUrl is required", lc))
                     ELSE IF validation = {}
                       THEN Throw(p, "update", "Failed to update subdomain", lc, "validate")
                     ELSE LET targetValidation == CHOOSE v \in validation : TRUE IN
                       IF ~targetValidation.valid
                         THEN Return(p, ErrorResponse(p, "update", 400,
                                       targetValidation.error, lc))
                       ELSE Await(p, "patch_dns",
                                  [lc EXCEPT !.target = targetValidation.value])

PatchDns(p) ==
  /\ At(p, "patch_dns")
  /\ DnsUpsert(p, "patch_update")

\* an update that puts the record back to pending
updateData_pending(doc, l, t) ==
  [doc EXCEPT !.targetUrl = l.target, !.dnsCreated = l.dnsCreated,
              !.dnsError = l.dnsError, !.updatedAt = t, !.status = "pending"]

\* an update that makes the caller the owner of the record
updateData_takesOwnership(doc, l, t) ==
  [doc EXCEPT !.targetUrl = l.target, !.dnsCreated = l.dnsCreated,
              !.dnsError = l.dnsError, !.updatedAt = t,
              !.userId = l.user.uid, !.userEmail = l.user.email]

\* an update that sets dnsCreated and leaves the old dnsError
updateData_keepsError(doc, l, t) ==
  [doc EXCEPT !.targetUrl = l.target, !.dnsCreated = l.dnsCreated, !.updatedAt = t]

\* an update that leaves the DNS flags of the record as they were
updateData_staleFlags(doc, l, t) ==
  [doc EXCEPT !.targetUrl = l.target, !.updatedAt = t]

updateData(doc, l, t) ==
  [doc EXCEPT !.targetUrl = l.target, !.dnsCreated = l.dnsCreated,
              !.dnsError = l.dnsError, !.updatedAt = t]

\* docRef.update(updateData): throws when the store is unreachable or the
\* document no longer exists
PatchUpdate(p) ==
  /\ At(p, "patch_update")
  /\ UNCHANGED <<nextId, requests, dns, rateLimit, now>>
  /\ \/ /\ Throw(p, "update", "Failed to update subdomain", loc[p], "update")
        /\ UNCHANGED store
     \/ /\ Doc(loc[p].id) # {}
        /\ store' = {IF d.id = loc[p].id THEN updateData(d, loc[p], now) ELSE d : d \in store}
        /\ Await(p, "patch_reget", [loc[p] EXCEPT !.storeWrites = @ + 1])

\* the second docRef.get() and the 200 response built from it; reading the
\* fields of a missing document throws
PatchReget(p) ==
  /\ At(p, "patch_reget")
  /\ UNCHANGED <<store, nextId, requests, dns, rateLimit, now>>
  /\ \/ Throw(p, "update", "Failed to update subdomain", loc[p], "reget")
     \/ /\ Doc(loc[p].id) # {}
        /\ Return(p, DocResponse(p, "update", 200, loc[p],
                       CHOOSE d \in Doc(loc[p].id) : TRUE))

\* ------------------------------------------- DELETE /api/subdomains/:id
\* a delete that sends the DNS delete whatever the record says
DnsDeleteNeeded_always(data) == TRUE

\* if (data.dnsCreated): the DNS delete is sent for a record that has DNS
DnsDeleteNeeded(data) == data.dnsCreated

\* a delete that removes the DNS record before it checks the owner
DeleteStart_dnsBeforeOwner(p, r) ==
  /\ At(p, "idle")
  /\ r.op = "delete"
  /\ Receive
  /\ UNCHANGED <<store, nextId, rateLimit, now>>
  /\ LET auth == verifyAuthToken(r.cred)
         l == [BlankLoc EXCEPT !.req = r, !.user = auth.user, !.id = r.id]
     IN IF ~auth.ok
          THEN Return(p, ErrorResponse(p, "delete", 401, auth.error, l)) /\ UNCHANGED dns
        ELSE
          \/ Throw(p, "delete", "Failed to delete subdomain", l, "get") /\ UNCHANGED dns
          \/ IF Doc(r.id) = {}
               THEN /\ Return(p, ErrorResponse(p, "delete", 404, "Subdomain not found", l))
                    /\ UNCHANGED dns
             ELSE LET data == CHOOSE d \in Doc(r.id) : TRUE
                      ld == [l EXCEPT !.subdomain = data.subdomainName,
                                      !.recordType = data.recordType,
                                      !.ownerId = data.userId,
                                      !.readDnsCreated = data.dnsCreated,
                                      !.dnsRequests = @ + 1, !.dnsApplied = @ + 1]
                  IN /\ dns' = deleteRecord(dns, data.subdomainName, data.recordType)
                     /\ IF AccessDenied(auth.user, data)
                          THEN Return(p, ErrorResponse(p, "delete", 403, "Access denied", ld))
                        ELSE Await(p, "del_delete", ld)

\* withAuth, docRef.get() and the ownership check
DeleteStart(p, r) ==
  /\ At(p, "idle")
  /\ r.op = "delete"
  /\ Receive
  /\ UNCHANGED <<store, nextId, dns, rateLimit, now>>
  /\ LET auth == verifyAuthToken(r.cred)
         l == [BlankLoc EXCEPT !.req = r, !.user = auth.user, !.id = r.id]
     IN IF ~auth.ok
          THEN Return(p, ErrorResponse(p, "delete", 401, auth.error, l))
        ELSE
          \/ Throw(p, "delete", "Failed to delete subdomain", l, "get")
          \/ IF Doc(r.id) = {}
               THEN Return(p, ErrorResponse(p, "delete", 404, "Subdomain not found", l))
             ELSE LET data == CHOOSE d \in Doc(r.id) : TRUE
                      ld == [l EXCEPT !.subdomain = data.subdomainName,
                                      !.recordType = data.recordType,
                                      !.ownerId = data.userId,
                                      !.readDnsCreated = data.dnsCreated]
                  IN IF AccessDenied(auth.user, data)
                       THEN Return(p, ErrorResponse(p, "delete", 403, "Access denied", ld))
                     ELSE IF DnsDeleteNeeded(data)
                       THEN Await(p, "del_dns", ld)
                     ELSE Await(p, "del_delete", ld)

\* a delete that answers with the DNS error instead of going on
DeleteDnsFailed_blocking(p, message) ==
  Return(p, ErrorResponse(p, "delete", 500, message,
                          [loc[p] EXCEPT !.dnsRequests = @ + 1]))

\* catch (dnsError) { logError(...) }: the deletion goes on
DeleteDnsFailed(p, message) ==
  Await(p, "del_delete", [loc[p] EXCEPT !.dnsRequests = @ + 1])

\* try { await deleteRecord(...) } catch { /* non-blocking */ }
DeleteDns(p) ==
  /\ At(p, "del_dns")
  /\ UNCHANGED <<store, nextId, requests, rateLimit, now>>
  /\ \/ /\ dns' = deleteRecord(dns, loc[p].subdomain, loc[p].recordType)
        /\ Await(p, "del_delete",
             [loc[p] EXCEPT !.dnsRequests = @ + 1, !.dnsApplied = @ + 1,
                            !.zoneChanges = @ + ZoneChange(dns, dns')])
     \/ /\ \E message \in DnsFailures : DeleteDnsFailed(p, message)
        /\ UNCHANGED dns

\* docRef.delete() and the 200 response
DeleteDoc(p) ==
  /\ At(p, "del_delete")
  /\ UNCHANGED <<nextId, requests, dns, rateLimit, now>>
  /\ \/ /\ Throw(p, "delete", "Failed to delete subdomain", loc[p], "delete")
        /\ UNCHANGED store
     \/ /\ store' = store \ Doc(loc[p].id)
        /\ Return(p, [ErrorResponse(p, "delete", 200, "null",
                        [loc[p] EXCEPT !.storeWrites = @ + 1])
                      EXCEPT !.reason = "Subdomain deleted"])

\* ------------------------------------------- the DNS client over HTTP
\* a client that takes only a server error for a failure
HttpOk_not5xx(status) == status < 500

\* response.ok
HttpOk(status) == status \in 200..299

DigitChar(n) ==
  CASE n = 0 -> "0" [] n = 1 -> "1" [] n = 2 -> "2" [] n = 3 -> "3" [] n = 4 -> "4"
    [] n = 5 -> "5" [] n = 6 -> "6" [] n = 7 -> "7" [] n = 8 -> "8" [] OTHER -> "9"

\* `${response.status}`
RECURSIVE ToDecimal(_)
ToDecimal(n) ==
  IF n < 10 THEN <<DigitChar(n)>> ELSE ToDecimal(n \div 10) \o <<DigitChar(n % 10)>>

ApiErrorPrefix ==
  <<"P","o","w","e","r","D","N","S"," ","A","P","I"," ","e","r","r","o","r"," ","(">>

\* `PowerDNS API error (${response.status}): ${errorText}`
ApiErrorMessage(status, errorText) ==
  ApiErrorPrefix \o ToDecimal(status) \o <<")", ":", " ">> \o errorText

S_fetchFailed == <<"f","e","t","c","h"," ","f","a","i","l","e","d">>
S_terminated == <<"t","e","r","m","i","n","a","t","e","d">>
S_notFound == <<"N","o","t"," ","F","o","u","n","d">>
S_unprocessable == <<"b","a","d"," ","r","r","s","e","t">>

\* what the fetch of the control API ends in: a response (whose body, read
\* when it is not ok, may fail to arrive) or a rejection
Response(status, body) ==
  [kind |-> "response", status |-> status, body |-> body, message |-> << >>]

HttpOutcomes ==
  {Response(204, << >>), Response(200, << >>),
   Response(304, << >>),
   Response(404, S_notFound), Response(422, S_unprocessable), Response(500, << >>),
   [kind |-> "unreadable", status |-> 500, body |-> << >>, message |-> S_terminated],
   [kind |-> "rejected", status |-> 0, body |-> << >>, message |-> S_fetchFailed]}

\* what a client function does with the outcome of its fetch: return true,
\* or throw an error with this message
ClientResult(outcome) ==
  IF outcome.kind = "rejected" THEN [threw |-> TRUE, message |-> outcome.message]
  ELSE IF HttpOk(outcome.status) THEN [threw |-> FALSE, message |-> << >>]
  ELSE IF outcome.kind = "unreadable" THEN [threw |-> TRUE, message |-> outcome.message]
  ELSE [threw |-> TRUE, message |-> ApiErrorMessage(outcome.status, outcome.body)]

\* one call of a client function: one fetch, the zone changed when the API
\* answered 2xx, and the call's return or throw
ClientCall(function, subdomain, recordType, target, zoneAfter, outcome) ==
  /\ last = NoEvent
  /\ requests < MaxDnsCalls
  /\ Receive
  /\ dns' = IF outcome.kind # "rejected" /\ outcome.status \in 200..299
              THEN zoneAfter ELSE dns
  /\ last' = [NoEvent EXCEPT
                !.op = function,
                !.error = IF ClientResult(outcome).threw THEN "thrown" ELSE "null",
                !.message = ClientResult(outcome).message,
                !.http = outcome,
                !.loc = [BlankLoc EXCEPT !.subdomain = subdomain, !.target = target,
                                         !.recordType = recordType,
                                         !.dnsRequests = 1,
                                         !.zoneChanges = ZoneChange(dns, dns')]]
  /\ UNCHANGED <<store, nextId, rateLimit, now, pc, loc, walk, limiter>>

CallCreateARecord(subdomain, targetIP, outcome) ==
  ClientCall("createARecord", subdomain, "A", targetIP,
             createARecord(dns, subdomain, targetIP), outcome)

CallCreateCNAMERecord(subdomain, target, outcome) ==
  ClientCall("createCNAMERecord", subdomain, "CNAME", target,
             createCNAMERecord(dns, subdomain, target), outcome)

CallDeleteRecord(subdomain, recordType, outcome) ==
  ClientCall("deleteRecord", subdomain, recordType, << >>,
             deleteRecord(dns, subdomain, recordType), outcome)

\* ------------------------------------------- GET /api/subdomains (list)
ListLimitDefault == 20
NaN == -1

\* the digits a string starts with
RECURSIVE LeadingDigits(_)
LeadingDigits(s) ==
  IF s # << >> /\ Head(s) \in Digits THEN <<Head(s)>> \o LeadingDigits(Tail(s))
  ELSE << >>

\* parseInt(limit, 10) of a query parameter, or of the default number
ParseInt(x) ==
  IF x.t = "undefined" THEN ListLimitDefault
  ELSE LET digits == LeadingDigits(TrimStart(x.v)) IN
    IF digits = << >> THEN NaN ELSE DecVal(digits)

\* d1 comes before d2 in orderBy('createdAt', 'desc'), ties by document id
Before(d1, d2) ==
  \/ d1.createdAt > d2.createdAt
  \/ d1.createdAt = d2.createdAt /\ d1.id > d2.id

RECURSIVE OrderByCreatedAtDesc(_)
OrderByCreatedAtDesc(docs) ==
  IF docs = {} THEN << >>
  ELSE LET first == CHOOSE d \in docs : \A e \in docs \ {d} : Before(d, e) IN
    <<first>> \o OrderByCreatedAtDesc(docs \ {first})

\* a list query without the owner filter
ListScope_all(user) == store

\* the documents the list query ranges over
ListScope(user) ==
  IF user.isAdmin THEN store ELSE {d \in store : d.userId = user.uid}

\* a query that starts at its cursor, not after it
StartAfter_inclusive(docs, startDoc) ==
  {d \in docs : \A c \in startDoc : ~Before(d, c)}

\* query.startAfter(startDoc)
StartAfter(docs, startDoc) ==
  {d \in docs : \A c \in startDoc : Before(c, d)}

\* query.get(): at most limitNum documents, in order
RunListQuery(user, limitNum, startDoc) ==
  LET ordered == OrderByCreatedAtDesc(StartAfter(ListScope(user), startDoc)) IN
    SubSeq(ordered, 1, IF Len(ordered) < limitNum THEN Len(ordered) ELSE limitNum)

\* withAuth and the building of the query
ListStart(p, r) ==
  /\ At(p, "idle")
  /\ r.op = "list"
  /\ Receive
  /\ UNCHANGED <<store, nextId, dns, rateLimit, now>>
  /\ LET auth == verifyAuthToken(r.cred)
         limitNum == ParseInt(r.limit)
         l == [BlankLoc EXCEPT !.req = r, !.user = auth.user, !.limitNum = limitNum]
     IN IF ~auth.ok
          THEN Return(p, ErrorResponse(p, "list", 401, auth.error, l))
        ELSE IF limitNum < 0
          THEN Throw(p, "list", "Failed to list subdomains", l, "limit")
        ELSE IF r.startAfter # 0
          THEN Await(p, "list_cursor", l)
        ELSE Await(p, "list_query", l)

\* collection.doc(startAfter).get()
ListCursor(p) ==
  /\ At(p, "list_cursor")
  /\ UNCHANGED <<store, nextId, requests, dns, rateLimit, now>>
  /\ \/ Throw(p, "list", "Failed to list subdomains", loc[p], "get")
     \/ Await(p, "list_query", [loc[p] EXCEPT !.startDoc = Doc(loc[p].req.startAfter)])

\* query.get() and the 200 response
ListGet(p) ==
  /\ At(p, "list_query")
  /\ UNCHANGED <<store, nextId, requests, dns, rateLimit, now>>
  /\ \/ Throw(p, "list", "Failed to list subdomains", loc[p], "query")
     \/ LET subdomains == RunListQuery(loc[p].user, loc[p].limitNum, loc[p].startDoc) IN
          Return(p, [ErrorResponse(p, "list", 200, "null", loc[p])
                     EXCEPT !.subdomains = subdomains,
                            !.hasMore = (Len(subdomains) = loc[p].limitNum),
                            !.lastId = IF Len(subdomains) > 0
                                         THEN subdomains[Len(subdomains)].id ELSE 0])

\* a client starts to page through the list, with its credential and a limit
StartWalk(cred, limit) ==
  /\ last = NoEvent
  /\ \A p \in Procs : pc[p] = "idle"
  /\ ~walk.active
  /\ walk' = [NoWalk EXCEPT !.active = TRUE, !.cred = cred, !.limit = limit]
  /\ UNCHANGED <<store, nextId, requests, dns, rateLimit, now, pc, loc, last, limiter>>

\* the client's next request: the same limit, startAfter the lastId it got
WalkRequests ==
  IF walk.active /\ ~walk.done
    THEN {[BlankReq EXCEPT !.op = "list", !.cred = walk.cred, !.limit = walk.limit,
                           !.startAfter = walk.cursor]}
    ELSE {}

\* the client takes the page of a 200 response: it goes on from lastId while
\* hasMore is true
TakePage ==
  /\ walk.active /\ ~walk.done
  /\ last.op = "list" /\ last.status = 200
  /\ walk' = [walk EXCEPT !.pages = Append(@, last.subdomains),
                          !.cursor = last.lastId,
                          !.done = ~last.hasMore]
  /\ last' = NoEvent
  /\ UNCHANGED <<store, nextId, requests, dns, rateLimit, now, pc, loc, limiter>>

\* time passes between requests
Tick ==
  /\ last = NoEvent
  /\ \A p \in Procs : pc[p] = "idle"
  /\ ~walk.active
  /\ now < MaxTicks
  /\ now' = now + 1
  /\ UNCHANGED <<store, nextId, requests, dns, rateLimit, pc, loc, last, walk, limiter>>

\* a rate-limit window of time passes between requests
Wait ==
  /\ last = NoEvent
  /\ \A p \in Procs : pc[p] = "idle"
  /\ now < MaxWaits * RateLimitWindowMs
  /\ now' = now + RateLimitWindowMs
  /\ UNCHANGED <<store, nextId, requests, dns, rateLimit, pc, loc, last, walk, limiter>>

\* ------------------------------------------- GET /api/subdomains/:id
\* a get without the ownership check
ReadDenied_open(user, data) == FALSE

\* a user who is neither admin nor owner may not see the record
ReadDenied(user, data) == ~user.isAdmin /\ data.userId # user.uid

GetHandler(p, r) ==
  /\ At(p, "idle")
  /\ r.op = "get"
  /\ Receive
  /\ UNCHANGED <<store, nextId, dns, rateLimit, now>>
  /\ LET auth == verifyAuthToken(r.cred)
         l == [BlankLoc EXCEPT !.req = r, !.user = auth.user, !.id = r.id]
     IN IF ~auth.ok
          THEN Return(p, ErrorResponse(p, "get", 401, auth.error, l))
        ELSE
          \/ Throw(p, "get", "Failed to get subdomain", l, "get")
          \/ IF Doc(r.id) = {}
               THEN Return(p, ErrorResponse(p, "get", 404, "Subdomain not found", l))
             ELSE LET data == CHOOSE d \in Doc(r.id) : TRUE
                      ld == [l EXCEPT !.subdomain = data.subdomainName,
                                      !.recordType = data.recordType,
                                      !.ownerId = data.userId]
                  IN IF ReadDenied(auth.user, data)
                       THEN Return(p, ErrorResponse(p, "get", 403, "Access denied", ld))
                     ELSE Return(p, DocResponse(p, "get", 200, ld, data))

\* ------------------------------------------- GET /api/subdomains/check
\* a lookup of the name as typed, trimmed but not lowercased
CheckLookupName_raw(name, validation) == Trim(name.v)

\* the name the availability query looks up
CheckLookupName(name, validation) == validation.value

\* one reason for every rejected name
CheckInvalidReason_generic(validation) == "Invalid subdomain name"

\* the reason given for a name the validator rejects
CheckInvalidReason(validation) == validation.error

CheckHandler(p, r) ==
  /\ At(p, "idle")
  /\ r.op = "check"
  /\ Receive
  /\ UNCHANGED <<store, nextId, dns, rateLimit, now>>
  /\ LET l == [BlankLoc EXCEPT !.req = r]
         validation == validateSubdomainName(r.name)
     IN IF ~Truthy(r.name)
          THEN Return(p, ErrorResponse(p, "check", 400, "Subdomain name is required", l))
        ELSE IF ~validation.valid
          THEN Return(p, [ErrorResponse(p, "check", 200, "null", l)
                          EXCEPT !.available = FALSE, !.reason = CheckInvalidReason(validation)])
        ELSE
          \/ Throw(p, "check", "Failed to check availability", l, "query")
          \/ LET available == QueryByName(CheckLookupName(r.name, validation)) = {} IN
               Return(p, [ErrorResponse(p, "check", 200, "null", l)
                          EXCEPT !.available = available,
                                 !.reason = IF available THEN "null"
                                            ELSE "This subdomain is already taken"])

\* ------------------------------------------------------------- requests
S_abc == <<"a","b","c">>
S_Abc == <<" ","A","b","c">>
S_ab == <<"a","b">>
S_www == <<"w","w","w">>
S_hy == <<"-","a","b">>
S_ip1 == <<"1",".","2",".","3",".","4">>
S_ip2 == <<"5",".","6",".","7",".","8">>
S_host == <<"x",".","c","o">>
S_bad == <<"n","o","p","e">>

S_x9 == <<"x","-","9">>

\* the requests of the concurrent specification: one label, A records created
\* by one user, changed and deleted by their owner, another user and the admin
Creds == {"tok-u1", "tok-u2", "tok-admin"}
ClientIPs == {"203.0.113.7"}

CreateRequests ==
  {[BlankReq EXCEPT !.op = "create", !.cred = "tok-u1", !.ip = ip,
                    !.name = Str(S_abc), !.target = t, !.rtype = "A"] :
     ip \in ClientIPs, t \in {Str(S_ip1), Str(S_ip2)}}

UpdateRequests ==
  {[BlankReq EXCEPT !.op = "update", !.cred = c, !.id = i, !.target = t] :
     c \in Creds, i \in Ids, t \in {Str(S_ip1), Str(S_ip2)}}

DeleteRequests ==
  {[BlankReq EXCEPT !.op = "delete", !.cred = c, !.id = i] :
     c \in Creds, i \in Ids}

CheckRequests ==
  {[BlankReq EXCEPT !.op = "check", !.name = Str(S_abc)]}

\* the requests of the sequential specification: missing and invalid
\* credentials, names, targets and record types as well
SeqCreds == {"none", "expired", "tok-u1", "tok-u2", "tok-admin"}
SeqNames == {Undefined, Str(<< >>), Str(S_ab), Str(S_www), Str(S_hy), Str(S_abc), Str(S_Abc), Str(S_x9)}
SeqTargets == {Undefined, Str(S_bad), Str(S_ip1), Str(S_ip2), Str(S_host)}
SeqTypes == {"undefined", "A", "CNAME", "MX"}

\* every body from one caller, one valid body from every caller
SeqCreateRequests ==
  {[BlankReq EXCEPT !.op = "create", !.cred = "tok-u1", !.ip = ip, !.name = n,
                    !.target = t, !.rtype = ty] :
     ip \in ClientIPs, n \in SeqNames \ {Str(<< >>), Str(S_hy)},
     t \in SeqTargets, ty \in SeqTypes}
  \cup
  {[BlankReq EXCEPT !.op = "create", !.cred = c, !.ip = ip, !.name = Str(S_abc),
                    !.target = Str(S_ip2), !.rtype = "A"] :
     c \in SeqCreds, ip \in ClientIPs}

SeqUpdateRequests ==
  {[BlankReq EXCEPT !.op = "update", !.cred = c, !.id = i, !.target = t] :
     c \in SeqCreds, i \in Ids, t \in SeqTargets}

SeqDeleteRequests ==
  {[BlankReq EXCEPT !.op = "delete", !.cred = c, !.id = i] :
     c \in SeqCreds, i \in Ids}

SeqCheckRequests ==
  {[BlankReq EXCEPT !.op = "check", !.name = n] : n \in SeqNames}

\* the requests of the specification of all operations: two owners with one
\* label each, reads and changes by every caller, the status changes the admin
\* dashboard sends, and a check without credentials
ApiCreateRequests ==
  {[BlankReq EXCEPT !.op = "create", !.cred = cn[1], !.ip = ip, !.name = Str(cn[2]),
                    !.target = Str(S_ip1), !.rtype = "A"] :
     ip \in ClientIPs,
     cn \in {<<"tok-u1", S_abc>>, <<"tok-u2", S_x9>>, <<"none", S_abc>>, <<"expired", S_abc>>}}

StatusChanges == {"approved", "rejected"}

ApiUpdateRequests ==
  {[BlankReq EXCEPT !.op = "update", !.cred = c, !.id = i, !.target = Str(S_ip2)] :
     c \in SeqCreds, i \in Ids}
  \cup
  {[BlankReq EXCEPT !.op = "update", !.cred = "tok-admin", !.id = i, !.status = st] :
     i \in Ids, st \in StatusChanges}

ApiDeleteRequests ==
  {[BlankReq EXCEPT !.op = "delete", !.cred = c, !.id = i] : c \in SeqCreds, i \in Ids}

S_1 == <<"1">>

ApiListRequests ==
  {[BlankReq EXCEPT !.op = "list", !.cred = c, !.limit = lim, !.startAfter = i] :
     c \in SeqCreds, lim \in {Undefined, Str(S_1)}, i \in {0} \cup Ids}

ApiGetRequests ==
  {[BlankReq EXCEPT !.op = "get", !.cred = c, !.id = i] : c \in SeqCreds, i \in Ids}

ApiCheckRequests ==
  {[BlankReq EXCEPT !.op = "check", !.name = Str(S_abc)]}

\* the requests of the specification of create: every body of one caller
S_hyEnd == <<"a","b","-">>

CreateNames == SeqNames \cup {Str(S_hyEnd)}

S_url == <<"h","t","t","p",":","/","/","x",".","c","o","/">>

CreateTargets == SeqTargets \cup {Str(S_url)}

AllCreateRequests ==
  {[BlankReq EXCEPT !.op = "create", !.cred = "tok-u1", !.ip = ip, !.name = n,
                    !.target = t, !.rtype = ty] :
     ip \in ClientIPs, n \in CreateNames, t \in CreateTargets, ty \in SeqTypes}

\* ------------------------------------------- calls of the name validator
\* one call of validateSubdomainName: the result it returns
ValidateLabelCall(subdomain) ==
  /\ last = NoEvent
  /\ requests < MaxLabelCalls
  /\ Receive
  /\ LET result == validateSubdomainName(subdomain) IN
       last' = [NoEvent EXCEPT
                  !.op = "validateSubdomainName",
                  !.available = result.valid,
                  !.error = result.error,
                  !.loc = [BlankLoc EXCEPT !.req = [BlankReq EXCEPT !.name = subdomain],
                                           !.subdomain = result.value]]
  /\ UNCHANGED <<store, nextId, dns, rateLimit, now, pc, loc, walk, limiter>>

\* the arguments of the calls: every string of up to MaxInputLen characters
\* of these, the reserved names as they are and in capitals, names of 63 and
\* 64 characters, and values that are not strings
LabelChars == {"a", "B", "1", "-", " ", "_"}

Repeat(c, n) == [i \in 1..n |-> c]

ToUpperChar(c) ==
  CASE c = "a" -> "A" [] c = "d" -> "D" [] c = "f" -> "F" [] c = "i" -> "I"
    [] c = "l" -> "L" [] c = "m" -> "M" [] c = "n" -> "N" [] c = "o" -> "O"
    [] c = "p" -> "P" [] c = "r" -> "R" [] c = "s" -> "S" [] c = "t" -> "T"
    [] c = "w" -> "W" [] OTHER -> c

LabelInputs ==
  {Str(s) : s \in UNION {[1..k -> LabelChars] : k \in 0..MaxInputLen}}
  \cup {Str(s) : s \in Reserved}
  \cup {Str(<<" ">> \o [i \in 1..Len(s) |-> ToUpperChar(s[i])] \o <<"\n">>) : s \in Reserved}
  \cup {Str(Repeat("a", MaxLabelLen)), Str(Repeat("a", MaxLabelLen + 1)),
        Str(<<" ">> \o Repeat("A", MaxLabelLen) \o <<"\t">>),
        Str(Repeat("9", MaxLabelLen - 1) \o <<"-">>),
        Str(Repeat(" ", MaxLabelLen + 1) \o <<"a">>)}
  \cup {[t |-> ty, v |-> << >>] : ty \in {"undefined", "null", "number", "boolean", "object"}}

\* ------------------------------------------- calls of the rate limiter
\* one call of checkRateLimit at the time it is: the Map is updated, and the
\* call is noted with its result and the count the Map then holds
CheckRateLimitCall(identifier) ==
  /\ last = NoEvent
  /\ Len(limiter.calls) < MaxLimiterCalls
  /\ LET result == checkRateLimit(rateLimit, identifier, limiter.maxRequests,
                                  limiter.windowMs, now)
     IN /\ rateLimit' = result.map
        /\ limiter' = [limiter EXCEPT !.calls = Append(@,
             [fn |-> "checkRateLimit", identifier |-> identifier, t |-> now,
              allowed |-> result.allowed,
              count |-> IF identifier \in DOMAIN result.map
                          THEN result.map[identifier].count ELSE 0,
              removed |-> {}])]
  /\ UNCHANGED <<store, nextId, requests, dns, now, pc, loc, last, walk>>

\* the interval timer calls cleanupRateLimit: the call is noted with the
\* entries it deleted
CleanupRateLimitCall ==
  /\ last = NoEvent
  /\ Len(limiter.calls) < MaxLimiterCalls
  /\ rateLimit' = cleanupRateLimit(rateLimit, now)
  /\ limiter' = [limiter EXCEPT !.calls = Append(@,
       [fn |-> "cleanupRateLimit", identifier |-> "", t |-> now,
        allowed |-> FALSE, count |-> 0,
        removed |-> {[identifier |-> k, resetTime |-> rateLimit[k].resetTime] :
                       k \in DOMAIN rateLimit \ DOMAIN rateLimit'}])]
  /\ UNCHANGED <<store, nextId, requests, dns, now, pc, loc, last, walk>>

\* a millisecond passes between two calls
Elapse ==
  /\ last = NoEvent
  /\ now < MaxClock
  /\ now' = now + 1
  /\ UNCHANGED <<store, nextId, requests, dns, rateLimit, pc, loc, last, walk, limiter>>

\* the arguments of the calls: two identifiers, a limit of one or two
\* requests and a window of one or two milliseconds
LimiterIds == {"203.0.113.7", "198.51.100.9"}
LimiterMaxRequests == {1, 2}
LimiterWindows == {1, 2}

\* the requests of the specification of paging: three labels of two owners,
\* then a client that pages with limit 1, limit 2 or the default limit
S_a1b == <<"a","1","b">>
S_2 == <<"2">>

ListCreateRequests ==
  {[BlankReq EXCEPT !.op = "create", !.cred = cn[1], !.ip = ip, !.name = Str(cn[2]),
                    !.target = Str(S_ip1), !.rtype = "A"] :
     ip \in ClientIPs,
     cn \in {<<"tok-u1", S_abc>>, <<"tok-u1", S_a1b>>, <<"tok-u2", S_x9>>}}

WalkCreds == {"tok-u1", "tok-admin"}
WalkLimits == {Undefined, Str(S_1), Str(S_2)}

\* the requests of the specification of the rate limit: creates from two
\* addresses, with a body that is accepted, a body without a name, and
\* without a credential
RateCreateRequests ==
  {[BlankReq EXCEPT !.op = "create", !.cred = "tok-u1", !.ip = "203.0.113.7",
                    !.name = n, !.target = Str(S_ip1), !.rtype = "A"] :
     n \in {Str(S_abc), Undefined}}
  \cup
  {[BlankReq EXCEPT !.op = "create", !.cred = c, !.ip = "198.51.100.9",
                    !.name = Undefined, !.target = Str(S_ip1), !.rtype = "A"] :
     c \in {"tok-u2", "none"}}

\* the requests of the specification of one record: an A record of one user,
\* a CNAME record of another, a record type that is neither and a target of
\* the other type, then reads, updates with every target and deletes by every
\* caller
RecordCreateRequests ==
  {[BlankReq EXCEPT !.op = "create", !.cred = c[1], !.ip = ip, !.name = Str(c[2]),
                    !.target = Str(c[3]), !.rtype = c[4]] :
     ip \in ClientIPs,
     c \in {<<"tok-u1", S_Abc, S_ip1, "A">>, <<"tok-u2", S_x9, S_url, "CNAME">>,
            <<"tok-u1", S_abc, S_ip1, "MX">>, <<"tok-u1", S_abc, S_host, "undefined">>}}

\* ---------------------------------------------------------- specification
\* the response just sent has left the server
Deliver ==
  /\ last # NoEvent
  /\ last' = NoEvent
  /\ UNCHANGED <<store, nextId, requests, dns, rateLimit, now, pc, loc, walk, limiter>>

Upto(limit, reqs) == IF requests < limit THEN reqs ELSE {}

\* concurrent requests, interleaved at their awaits
Next ==
  \/ Deliver
  \/ \E p \in Procs :
       \/ \E r \in Upto(MaxRequests, CreateRequests) : PostStart(p, r)
       \/ PostQuery(p)
       \/ PostDns(p)
       \/ PostAdd(p)
       \/ \E r \in Upto(MaxRequests, UpdateRequests) : PatchStart(p, r)
       \/ PatchDns(p)
       \/ PatchUpdate(p)
       \/ PatchReget(p)
       \/ \E r \in Upto(MaxRequests, DeleteRequests) : DeleteStart(p, r)
       \/ DeleteDns(p)
       \/ DeleteDoc(p)
       \/ \E r \in Upto(MaxRequests, CheckRequests) : CheckHandler(p, r)

Spec == Init /\ [][Next]_vars

\* one request at a time, each run to its response
NextSeq ==
  \/ Deliver
  \/ \E r \in Upto(MaxSeqRequests, SeqCreateRequests) : PostStart(1, r)
  \/ PostQuery(1)
  \/ PostDns(1)
  \/ PostAdd(1)
  \/ \E r \in Upto(MaxSeqRequests, SeqUpdateRequests) : PatchStart(1, r)
  \/ PatchDns(1)
  \/ PatchUpdate(1)
  \/ PatchReget(1)
  \/ \E r \in Upto(MaxSeqRequests, SeqDeleteRequests) : DeleteStart(1, r)
  \/ DeleteDns(1)
  \/ DeleteDoc(1)
  \/ \E r \in Upto(MaxSeqRequests, SeqCheckRequests) : CheckHandler(1, r)

SpecSeq == Init /\ [][NextSeq]_vars

\* every operation of the API, one request at a time
NextApi ==
  \/ Deliver
  \/ \E r \in Upto(MaxApiRequests, ApiCreateRequests) : PostStart(1, r)
  \/ PostQuery(1)
  \/ PostDns(1)
  \/ PostAdd(1)
  \/ \E r \in Upto(MaxApiRequests, ApiUpdateRequests) : PatchStart(1, r)
  \/ PatchDns(1)
  \/ PatchUpdate(1)
  \/ PatchReget(1)
  \/ \E r \in Upto(MaxApiRequests, ApiDeleteRequests) : DeleteStart(1, r)
  \/ DeleteDns(1)
  \/ DeleteDoc(1)
  \/ \E r \in Upto(MaxApiRequests, ApiListRequests) : ListStart(1, r)
  \/ ListCursor(1)
  \/ ListGet(1)
  \/ \E r \in Upto(MaxApiRequests, ApiGetRequests) : GetHandler(1, r)
  \/ \E r \in Upto(MaxApiRequests, ApiCheckRequests) : CheckHandler(1, r)

SpecApi == Init /\ [][NextApi]_vars

\* creates only, one at a time
NextCreate ==
  \/ Deliver
  \/ \E r \in Upto(MaxCreateRequests, AllCreateRequests) : PostStart(1, r)
  \/ PostQuery(1)
  \/ PostDns(1)
  \/ PostAdd(1)

SpecCreate == Init /\ [][NextCreate]_vars

\* calls of the DNS client, one at a time
NextDns ==
  \/ Deliver
  \/ \E sub \in {S_abc, S_x9}, t \in {S_ip1, S_ip2}, o \in HttpOutcomes :
       CallCreateARecord(sub, t, o)
  \/ \E sub \in {S_abc, S_x9}, t \in {S_host}, o \in HttpOutcomes :
       CallCreateCNAMERecord(sub, t, o)
  \/ \E sub \in {S_abc, S_x9}, ty \in {"A", "CNAME"}, o \in HttpOutcomes :
       CallDeleteRecord(sub, ty, o)

SpecDns == Init /\ [][NextDns]_vars

\* calls of the name validator, one at a time
NextLabel ==
  \/ Deliver
  \/ \E subdomain \in LabelInputs : ValidateLabelCall(subdomain)

SpecLabel == Init /\ [][NextLabel]_vars

\* records are created at different times, then a client pages through the
\* list while nothing else is requested
NextList ==
  \/ Deliver
  \/ Tick
  \/ \E r \in (IF walk.active THEN {} ELSE Upto(MaxListCreates, ListCreateRequests)) :
       PostStart(1, r)
  \/ PostQuery(1)
  \/ PostDns(1)
  \/ PostAdd(1)
  \/ \E cred \in WalkCreds, limit \in WalkLimits : StartWalk(cred, limit)
  \/ \E r \in Upto(MaxWalkRequests, WalkRequests) : ListStart(1, r)
  \/ ListCursor(1)
  \/ ListGet(1)
  \/ TakePage

SpecList == Init /\ [][NextList]_vars

\* creates from two addresses, one at a time, and windows of time passing
NextRate ==
  \/ Deliver
  \/ Wait
  \/ \E r \in Upto(MaxRateRequests, RateCreateRequests) : PostStart(1, r)
  \/ PostQuery(1)
  \/ PostDns(1)
  \/ PostAdd(1)

SpecRate == Init /\ [][NextRate]_vars

\* a step in which no call failed: every DNS request sent was taken, and no
\* store call threw
AllCallsSucceed ==
  /\ \A p \in Procs : loc'[p].dnsApplied = loc'[p].dnsRequests
  /\ last'.loc.dnsApplied = last'.loc.dnsRequests
  /\ last'.loc.failedCall = "none"

\* concurrent requests while the DNS API and the store answer every call
NextHealthy ==
  \/ Deliver
  \/ \E p \in Procs :
       \/ \E r \in Upto(MaxRequests, CreateRequests) : PostStart(p, r) /\ AllCallsSucceed
       \/ PostQuery(p) /\ AllCallsSucceed
       \/ PostDns(p) /\ AllCallsSucceed
       \/ PostAdd(p) /\ AllCallsSucceed
       \/ \E r \in Upto(MaxRequests, UpdateRequests) : PatchStart(p, r) /\ AllCallsSucceed
       \/ PatchDns(p) /\ AllCallsSucceed
       \/ PatchUpdate(p) /\ AllCallsSucceed
       \/ PatchReget(p) /\ AllCallsSucceed
       \/ \E r \in Upto(MaxRequests, DeleteRequests) : DeleteStart(p, r) /\ AllCallsSucceed
       \/ DeleteDns(p) /\ AllCallsSucceed
       \/ DeleteDoc(p) /\ AllCallsSucceed

SpecHealthy == Init /\ [][NextHealthy]_vars


\* the operations on one record, one request at a time
NextRecord ==
  \/ Deliver
  \/ \E r \in Upto(MaxRecordRequests, RecordCreateRequests) : PostStart(1, r)
  \/ PostQuery(1)
  \/ PostDns(1)
  \/ PostAdd(1)
  \/ \E r \in Upto(MaxRecordRequests, ApiGetRequests) : GetHandler(1, r)
  \/ \E r \in Upto(MaxRecordRequests, SeqUpdateRequests) : PatchStart(1, r)
  \/ PatchDns(1)
  \/ PatchUpdate(1)
  \/ PatchReget(1)
  \/ \E r \in Upto(MaxRecordRequests, SeqDeleteRequests) : DeleteStart(1, r)
  \/ DeleteDns(1)
  \/ DeleteDoc(1)

SpecRecord == Init /\ [][NextRecord]_vars

\* the module is loaded; the callers pass one limit and one window
InitLimiter ==
  /\ \E m \in LimiterMaxRequests, w \in LimiterWindows :
       limiter = [NoLimiter EXCEPT !.maxRequests = m, !.windowMs = w]
  /\ walk = NoWalk
  /\ store = {}
  /\ nextId = 1
  /\ requests = 0
  /\ dns = {}
  /\ rateLimit = << >>
  /\ now = 0
  /\ pc = [p \in Procs |-> "idle"]
  /\ loc = [p \in Procs |-> BlankLoc]
  /\ last = NoEvent

\* calls of the limiter and of its cleanup, at times that do not go back
NextLimiter ==
  \/ \E identifier \in LimiterIds : CheckRateLimitCall(identifier)
  \/ CleanupRateLimitCall
  \/ Elapse

SpecLimiter == InitLimiter /\ [][NextLimiter]_vars


\* ------------------------------------------------------------------ claims
Quiescent == \A p \in Procs : pc[p] = "idle"

\* C1: in every reachable state no two persisted records have the same label
\* (the losing one of two concurrent creates of a label is answered 409 and
\* persists nothing).
C1_LabelUniqueness ==
  \A d1 \in store : \A d2 \in store :
    d1.subdomainName = d2.subdomainName => d1.id = d2.id

\* C2: between requests, every persisted record with dnsCreated = true has a
\* record set in the DNS Directory for fqdn(label) whose type and content are
\* the record's recordType and target.
C2_DnsConsistency ==
  Quiescent =>
    \A d \in store :
      d.dnsCreated =>
        \E rr \in dns :
          /\ rr.name = fqdn(d.subdomainName)
          /\ rr.type = d.recordType
          /\ rr.content = d.targetUrl

\* C6: when the persisted-store write of create or updateTarget fails, the
\* request is answered with an internal error and has committed nothing: it
\* changed neither the DNS Directory nor the store.
C6_StoreFailureAtomic ==
  (last.op \in {"create", "update"} /\ last.loc.failedCall \in {"add", "update"}) =>
    /\ last.status = 500
    /\ last.loc.zoneChanges = 0
    /\ last.loc.storeWrites = 0

\* C3: when the DNS upsert of a create throws and the store takes the write,
\* the create adds exactly one record, with status approved, dnsCreated false
\* and dnsError the message of the DNS error, and answers 201 with it.
C3_CreateSucceedAndFlag ==
  [][\A p \in Procs :
       (/\ pc[p] = "post_add" /\ pc'[p] = "idle"
        /\ loc[p].dnsRequests = 1 /\ loc[p].dnsApplied = 0
        /\ last'.loc.failedCall = "none")
       => /\ last'.op = "create" /\ last'.status = 201 /\ last'.error = "null"
          /\ Cardinality(store') = Cardinality(store) + 1
          /\ \E d \in store' \ store :
               /\ store' = store \cup {d}
               /\ last'.body = {d}
               /\ d.subdomainName = ToLowerCase(Trim(loc[p].req.name.v))
               /\ d.targetUrl = Trim(loc[p].req.target.v)
               /\ d.status = "approved"
               /\ d.dnsCreated = FALSE
               /\ d.dnsError \in DnsFailures
               /\ d.dnsError = loc[p].dnsError]_vars

C3_Witness ==
  /\ last.op = "create" /\ last.status = 201
  /\ last.loc.dnsRequests = 1 /\ last.loc.dnsApplied = 0
  /\ \E d \in last.body :
       d \in store /\ ~d.dnsCreated /\ d.dnsError \in DnsFailures /\ d.status = "approved"

\* C4: a create of a label that a persisted record already has, by any caller
\* with any valid target, is answered 409 when the store answers the query;
\* it sends nothing to the DNS Directory, writes nothing, and leaves the store
\* (the existing record with all its fields) as it was.
C4_SequentialDuplicate ==
  [][\A p \in Procs :
       (/\ pc[p] = "post_query" /\ pc'[p] # "post_query"
        /\ QueryByName(loc[p].subdomain) # {}
        /\ last'.loc.failedCall # "query")
       => /\ pc'[p] = "idle"
          /\ last'.op = "create" /\ last'.status = 409
          /\ last'.error = "This subdomain is already taken"
          /\ last'.loc.dnsRequests = 0 /\ last'.loc.storeWrites = 0
          /\ last'.body = {}
          /\ store' = store /\ dns' = dns /\ nextId' = nextId]_vars

C4_Witness ==
  /\ last.op = "create" /\ last.status = 409
  /\ \E d \in store :
       /\ d.subdomainName = last.loc.subdomain
       /\ d.userId # last.loc.user.uid
       /\ d.targetUrl # last.loc.target

\* C5: a delete by the owner or an admin of a record with dnsCreated = true
\* removes the record and answers 200 when the store takes the delete,
\* whether the DNS delete succeeded or threw; no delete is answered with the
\* DNS error.
C5_DeleteNotBlockedByDns ==
  /\ (last.op = "delete" /\ last.loc.dnsRequests > 0) => last.error \notin DnsFailures
  /\ (/\ last.op = "delete" /\ last.loc.ownerId # "" /\ last.loc.readDnsCreated
      /\ (last.loc.user.isAdmin \/ last.loc.user.uid = last.loc.ownerId)
      /\ last.loc.failedCall = "none")
     => /\ last.status = 200
        /\ last.error = "null"
        /\ last.loc.dnsRequests = 1
        /\ Doc(last.loc.id) = {}

C5_Witness ==
  /\ last.op = "delete" /\ last.status = 200 /\ last.loc.readDnsCreated
  /\ last.loc.dnsRequests = 1 /\ last.loc.dnsApplied = 0
  /\ Doc(last.loc.id) = {}
  /\ \E rr \in dns : rr.name = fqdn(last.loc.subdomain)

\* C7: an update or a delete of an existing record is answered 200 only to
\* an admin or the record's owner; to anyone else it is answered 403 and has
\* touched neither the DNS Directory nor the store; an admin is never
\* answered 403.
C7_MutationAuthorization ==
  (last.op \in {"update", "delete"}) =>
    /\ last.status = 200 =>
         /\ last.loc.ownerId # ""
         /\ (last.loc.user.isAdmin \/ last.loc.user.uid = last.loc.ownerId)
    /\ (/\ last.loc.ownerId # ""
        /\ ~last.loc.user.isAdmin
        /\ last.loc.user.uid # last.loc.ownerId)
       => /\ last.status = 403
          /\ last.error = "Access denied"
          /\ last.loc.dnsRequests = 0 /\ last.loc.storeWrites = 0
    /\ (last.loc.ownerId # "" /\ last.loc.user.isAdmin) => last.status # 403

C7_Witness ==
  /\ last.op = "update" /\ last.status = 200
  /\ last.loc.user.isAdmin /\ last.loc.ownerId = "u1"
  /\ last.loc.user.uid # last.loc.ownerId

\* C8: an update by the owner or an admin, with a target valid for the
\* record's type, sets the record's target to the new target and answers 200
\* with the record when the store takes the write, whether the DNS upsert
\* succeeded or threw: dnsCreated is true and dnsError null exactly when the
\* upsert succeeded, else dnsCreated is false and dnsError is the message of
\* the DNS error.
C8_UpdateSucceedAndFlag ==
  (/\ last.op = "update" /\ last.loc.ownerId # ""
   /\ (last.loc.user.isAdmin \/ last.loc.user.uid = last.loc.ownerId)
   /\ \E v \in PatchTargetValidation(last.loc.recordType, last.loc.req.target) : v.valid
   /\ last.loc.failedCall = "none")
  => /\ last.status = 200
     /\ last.loc.dnsRequests = 1
     /\ \E d \in store :
          /\ d.id = last.loc.id
          /\ last.body = {d}
          /\ d.targetUrl = Trim(last.loc.req.target.v)
          /\ d.dnsCreated = (last.loc.dnsApplied = 1)
          /\ d.dnsCreated => d.dnsError = "null"
          /\ ~d.dnsCreated => (d.dnsError \in DnsFailures /\ d.dnsError = last.loc.dnsError)

C8_Witness ==
  /\ last.op = "update" /\ last.status = 200
  /\ last.loc.dnsRequests = 1 /\ last.loc.dnsApplied = 0
  /\ \E d \in last.body :
       /\ d \in store /\ ~d.dnsCreated /\ d.dnsError \in DnsFailures
       /\ d.targetUrl = last.loc.req.target.v
       /\ \E rr \in dns : rr.name = fqdn(d.subdomainName) /\ rr.content # d.targetUrl

\* C9: a check of a name the validator accepts, answered by the store, says
\* available exactly when no persisted record has the name trimmed and
\* lowercased as its label.
C9_AvailabilityTracksRegistry ==
  (/\ last.op = "check" /\ IsString(last.loc.req.name)
   /\ validateSubdomainName(last.loc.req.name).valid
   /\ last.loc.failedCall = "none")
  => /\ last.status = 200
     /\ last.available =
          (\A d \in store : d.subdomainName # ToLowerCase(Trim(last.loc.req.name.v)))

\* the label is available again after its record was created and deleted,
\* although the DNS Directory still holds its record set
C9_Witness ==
  /\ last.op = "check" /\ last.status = 200 /\ last.available
  /\ nextId = 2 /\ store = {}
  /\ \E rr \in dns : rr.name = fqdn(ToLowerCase(Trim(last.loc.req.name.v)))

\* C10 as claimed: a check of any name the validator rejects is answered
\* available = false with the validator's error as the reason.
C10_RejectedNameAsClaimed ==
  (last.op = "check" /\ ~validateSubdomainName(last.loc.req.name).valid)
  => /\ last.status = 200
     /\ last.available = FALSE
     /\ last.reason = validateSubdomainName(last.loc.req.name).error

\* C10 as amended: a check of a name that is given (not missing, not empty)
\* and that the validator rejects is answered 200 with available = false and
\* the validator's error as the reason; a check of a missing or empty name is
\* answered 400 with the error "Subdomain name is required"; neither reads
\* the store.
C10_RejectedName ==
  (last.op = "check" /\ ~validateSubdomainName(last.loc.req.name).valid)
  => /\ last.loc.failedCall = "none"
     /\ last.loc.storeWrites = 0
     /\ IF Truthy(last.loc.req.name)
          THEN /\ last.status = 200
               /\ last.available = FALSE
               /\ last.reason = validateSubdomainName(last.loc.req.name).error
               /\ last.error = "null"
          ELSE /\ last.status = 400
               /\ last.error = "Subdomain name is required"

C10_Witness ==
  /\ last.op = "check" /\ last.status = 200 /\ ~last.available
  /\ last.loc.req.name = Str(S_www)
  /\ last.reason = "This subdomain name is reserved"
  /\ store # {}

\* the documents of a list response
Listed(event) == {event.subdomains[i] : i \in 1..Len(event.subdomains)}

\* C12: every record a list returns to a non-admin caller, with any limit
\* and any cursor, is owned by the caller; a list by an admin ranges over all
\* records (without a cursor and with a limit the store fits in, it returns
\* every record).
C12_ListScoping ==
  (last.op = "list" /\ last.status = 200) =>
    /\ Listed(last) \subseteq store
    /\ ~last.loc.user.isAdmin =>
         \A d \in Listed(last) : d.userId = last.loc.user.uid
    /\ (/\ last.loc.user.isAdmin /\ last.loc.req.startAfter = 0
        /\ Cardinality(store) <= last.loc.limitNum)
       => Listed(last) = store

\* a non-admin lists from a cursor that is another owner's record
C12_Witness ==
  /\ last.op = "list" /\ last.status = 200 /\ ~last.loc.user.isAdmin
  /\ Len(last.subdomains) > 0
  /\ \E c \in last.loc.startDoc : c.userId # last.loc.user.uid

Gated == {"create", "list", "get", "update", "delete"}

\* no Authorization header, or a token that verifyIdToken refuses
BadCredential(cred) == cred = "none" \/ cred \notin ValidTokens

BodyRecordType(r) == IF r.rtype = "undefined" THEN "A" ELSE r.rtype

\* the error a create body is rejected with, "null" when it is acceptable
BodyError(r) ==
  IF ~validateSubdomainName(r.name).valid THEN validateSubdomainName(r.name).error
  ELSE IF BodyRecordType(r) = "A" THEN validateIP(r.target).error
  ELSE IF BodyRecordType(r) = "CNAME" THEN validateURL(r.target).error
  ELSE "Invalid record type. Must be A or CNAME."

\* C11: a create whose label the validator rejects (too short, led or ended
\* by a hyphen, reserved, ...), whose target is not an IPv4 literal for an A
\* record or not a domain name for a CNAME, or whose record type is neither,
\* sends no DNS request, persists nothing and leaves store and zone as they
\* were; from a signed-in caller within the rate limit it is answered 400 with
\* the error of the first failing validation.
C11_RejectedCreateNoEffect ==
  [][(last = NoEvent /\ last'.op = "create" /\ BodyError(last'.loc.req) # "null") =>
       /\ pc[last'.p] = "idle"
       /\ last'.status \in {400, 401, 429}
       /\ last'.loc.dnsRequests = 0 /\ last'.loc.storeWrites = 0
       /\ last'.body = {}
       /\ store' = store /\ dns' = dns /\ nextId' = nextId
       /\ (/\ ~BadCredential(last'.loc.req.cred)
           /\ checkRateLimit(rateLimit, last'.loc.req.ip, RateLimitMax,
                             RateLimitWindowMs, now).allowed)
          => /\ last'.status = 400
             /\ last'.error = BodyError(last'.loc.req)]_vars

\* a label led by a hyphen is rejected while a record exists
C11_Witness ==
  /\ last.op = "create" /\ last.status = 400
  /\ last.loc.req.name = Str(S_hy)
  /\ last.error = "Subdomain cannot start or end with a hyphen"
  /\ last.loc.req.target = Str(S_ip1) /\ last.loc.req.rtype = "A"
  /\ store # {} /\ dns # {}

\* C15: every record enters the store with status approved and approvedAt
\* set, and no step changes the status of a record that stays in the store,
\* while targetUrl, dnsCreated and dnsError may change.
C15_StatusStateMachine ==
  [][/\ \A d \in store' :
          Doc(d.id) = {} =>
            /\ d.status = "approved"
            /\ d.approvedAt # NoTime /\ d.approvedAt = d.createdAt
     /\ \A d \in store : \A e \in store' :
          e.id = d.id => e.status = d.status /\ e.approvedAt = d.approvedAt]_vars

\* an approved record whose target and DNS flags were changed by an update
C15_Witness ==
  /\ last.op = "update" /\ last.status = 200
  /\ last.loc.dnsApplied = 0
  /\ \E d \in last.body :
       /\ d \in store /\ d.status = "approved"
       /\ d.updatedAt # NoTime /\ ~d.dnsCreated /\ d.dnsError # "null"

\* C17: in every step, a record that stays in the store keeps its id,
\* subdomainName, userId, recordType and createdAt; only targetUrl,
\* dnsCreated, dnsError and updatedAt of a record ever change.
C17_ImmutableFields ==
  [][\A d \in store : \A e \in store' :
       e.id = d.id =>
         /\ e.subdomainName = d.subdomainName
         /\ e.userId = d.userId
         /\ e.recordType = d.recordType
         /\ e.createdAt = d.createdAt
         /\ e = [d EXCEPT !.targetUrl = e.targetUrl, !.dnsCreated = e.dnsCreated,
                          !.dnsError = e.dnsError, !.updatedAt = e.updatedAt]]_vars

\* an admin changed the target of a record that is still its creator's
C17_Witness ==
  /\ last.op = "update" /\ last.status = 200
  /\ last.loc.user.isAdmin
  /\ \E d \in last.body :
       /\ d \in store /\ d.userId = "u1" /\ d.userEmail = "u1@mail.tld"
       /\ d.targetUrl = S_ip2 /\ d.updatedAt # NoTime

UpsertContent(recordType, target) ==
  IF recordType = "CNAME" THEN targetWithDot(target) ELSE target

\* C19: when a record has dnsCreated = false and an update by its owner or an
\* admin with the record's own target gets its DNS upsert through and its
\* store write taken, the record has dnsCreated = true and dnsError null and
\* the record set of the record's name and type in the zone holds the target
\* and nothing else (for a CNAME with the final dot of the wire format).
C19_RetryConverges ==
  [][\A p \in Procs :
       (/\ pc[p] = "patch_update" /\ pc'[p] = "patch_reget"
        /\ loc[p].dnsApplied = 1
        /\ \E d \in Doc(loc[p].id) : ~d.dnsCreated /\ d.targetUrl = loc[p].target)
       => /\ \E e \in store' :
               /\ e.id = loc[p].id
               /\ e.dnsCreated /\ e.dnsError = "null"
               /\ e.targetUrl = loc[p].target
               /\ \E rr \in dns' :
                    /\ rr.name = fqdn(e.subdomainName)
                    /\ rr.type = e.recordType
                    /\ rr.content = UpsertContent(e.recordType, e.targetUrl)
          /\ \A rr \in dns' :
               (rr.name = fqdn(loc[p].subdomain) /\ rr.type = loc[p].recordType) =>
                 rr.content = UpsertContent(rr.type, loc[p].target)]_vars

\* the retry is under way: the upsert went through for a record that still
\* has dnsCreated = false, an error message and the same target
C19_Witness ==
  /\ pc[1] = "patch_update" /\ loc[1].dnsApplied = 1
  /\ \E d \in Doc(loc[1].id) :
       /\ ~d.dnsCreated /\ d.dnsError \in DnsFailures
       /\ d.targetUrl = loc[1].target
       /\ \E rr \in dns : rr.name = fqdn(d.subdomainName) /\ rr.content = d.targetUrl

\* the errors of handlePatch about the target of the request
InvalidTargetErrors ==
  {"targetUrl is required", "IP address is required", "Invalid IPv4 address",
   "URL/domain is required", "Invalid domain or URL"}

\* C16: a status change by an admin (PATCH with status approved or rejected
\* and nothing else, as the admin dashboard sends it) on an existing record
\* either moves the record to that status, with one DNS upsert for approved
\* and no DNS request for rejected, or fails as an invalid transition, that
\* is with a client error that is not about the target, and changes nothing.
C16_ModeratedTransition ==
  (/\ last.op = "update" /\ last.loc.req.status \in StatusChanges
   /\ last.loc.req.target = Undefined
   /\ last.loc.user.isAdmin /\ last.loc.ownerId # ""
   /\ last.loc.failedCall = "none")
  => \/ /\ last.status = 200
        /\ \E d \in Doc(last.loc.id) : d.status = last.loc.req.status
        /\ last.loc.dnsRequests = (IF last.loc.req.status = "approved" THEN 1 ELSE 0)
     \/ /\ last.status \in 400..499
        /\ last.error \notin InvalidTargetErrors
        /\ last.loc.dnsRequests = 0 /\ last.loc.storeWrites = 0

ClientFunctions == {"createARecord", "createCNAMERecord", "deleteRecord"}

\* sub occurs in s
Contains(s, sub) ==
  \E i \in 1..(Len(s) - Len(sub) + 1) : SubSeq(s, i, i + Len(sub) - 1) = sub

\* C20 as claimed: a client call returns success only after a 2xx answer,
\* and throws after anything else, with an error that carries the status and
\* the body of the API's answer.
C20_FailureSurfacingAsClaimed ==
  (last.op \in ClientFunctions) =>
    IF last.http.kind = "response" /\ last.http.status \in 200..299
      THEN last.error = "null"
      ELSE /\ last.error = "thrown"
           /\ Contains(last.message, ToDecimal(last.http.status))
           /\ Contains(last.message, last.http.body)
           /\ last.message = ApiErrorMessage(last.http.status, last.http.body)

\* C20 as amended: a client call sends one request; it returns success
\* exactly when the API answered 2xx, and then the zone has the change; after
\* a non-2xx answer it throws "PowerDNS API error (<status>): <body>" and
\* after a transport failure (the fetch rejected, or the body of the error
\* answer not readable) it throws the transport error, which carries no
\* status; a call that throws leaves the zone as it was.
C20_FailureSurfacing ==
  (last.op \in ClientFunctions) =>
    /\ last.loc.dnsRequests = 1
    /\ last.error = "null" <=>
         (last.http.kind # "rejected" /\ last.http.status \in 200..299)
    /\ last.error = "null" => last.message = << >>
    /\ (last.error = "thrown" /\ last.http.kind = "response") =>
         /\ last.message =
              ApiErrorPrefix \o ToDecimal(last.http.status) \o <<")", ":", " ">>
                \o last.http.body
         /\ Contains(last.message, ToDecimal(last.http.status))
    /\ (last.error = "thrown" /\ last.http.kind # "response") =>
         last.message = last.http.message
    /\ last.error = "thrown" => last.loc.zoneChanges = 0

\* a delete answered 404 throws with status and body in the message
C20_Witness ==
  /\ last.op = "deleteRecord" /\ last.error = "thrown"
  /\ last.http.status = 404
  /\ Contains(last.message, <<"4","0","4">>) /\ Contains(last.message, S_notFound)
  /\ dns # {}

\* the records the zone holds for a name and a type
RRSet(zone, name, type) == {rr \in zone : rr.name = name /\ rr.type = type}

\* C21: after a createARecord call that the API answered 2xx, the zone holds
\* for fqdn(label) exactly one A record, with the address of the call,
\* whatever address it held before (last write wins), every other record
\* set is as it was, the same call once more would leave the zone as it is,
\* and a call with the address the zone already holds changes nothing.
C21_UpsertIdempotent ==
  [][(last = NoEvent /\ last'.op = "createARecord" /\ last'.error = "null") =>
       LET name == fqdn(last'.loc.subdomain)
           ip == last'.loc.target
       IN /\ RRSet(dns', name, "A") =
               {[name |-> name, type |-> "A", ttl |-> RecordTtl, content |-> ip]}
          /\ dns' \ RRSet(dns', name, "A") = dns \ RRSet(dns, name, "A")
          /\ createARecord(dns', last'.loc.subdomain, ip) = dns'
          /\ (\A rr \in RRSet(dns, name, "A") : rr.content = ip) /\ RRSet(dns, name, "A") # {}
               => dns' = dns]_vars

\* the same upsert a second time: answered 2xx, and the zone, which holds
\* the record, did not change
C21_Witness ==
  /\ last.op = "createARecord" /\ last.error = "null"
  /\ last.loc.zoneChanges = 0
  /\ RRSet(dns, fqdn(last.loc.subdomain), "A") =
       {[name |-> fqdn(last.loc.subdomain), type |-> "A", ttl |-> RecordTtl,
         content |-> last.loc.target]}

\* C22: a delete that passed the ownership check sends the DNS delete
\* exactly when the record it read at its start has dnsCreated = true; the
\* request is for the label and the record type of that record (when the API
\* takes it, the zone loses that record set and nothing else); and the
\* request is sent, and its outcome awaited, before the handler removes the
\* record: the step that removes the record is a later one, and the step that
\* sends the DNS request leaves the store alone.
C22_DeleteDnsStep ==
  [][\A p \in Procs :
       /\ (pc[p] = "idle" /\ pc'[p] \in {"del_dns", "del_delete"}) =>
            /\ store' = store /\ dns' = dns
            /\ loc'[p].dnsRequests = 0
            /\ \E d \in Doc(loc'[p].req.id) :
                 /\ loc'[p].user.isAdmin \/ loc'[p].user.uid = d.userId
                 /\ loc'[p].readDnsCreated = d.dnsCreated
                 /\ loc'[p].subdomain = d.subdomainName
                 /\ loc'[p].recordType = d.recordType
                 /\ (pc'[p] = "del_dns") = d.dnsCreated
       /\ (pc[p] = "del_dns" /\ pc'[p] # "del_dns") =>
            /\ loc[p].readDnsCreated /\ loc[p].dnsRequests = 0
            /\ pc'[p] = "del_delete"
            /\ loc'[p].dnsRequests = 1
            /\ store' = store
            /\ dns' = IF loc'[p].dnsApplied = 1
                        THEN dns \ RRSet(dns, fqdn(loc[p].subdomain), loc[p].recordType)
                        ELSE dns
       /\ (pc[p] = "del_delete" /\ pc'[p] # "del_delete") =>
            /\ pc'[p] = "idle"
            /\ loc[p].dnsRequests = (IF loc[p].readDnsCreated THEN 1 ELSE 0)
            /\ last'.loc.dnsRequests = loc[p].dnsRequests
            /\ dns' = dns
            /\ store' \in {store, store \ Doc(loc[p].id)}
       /\ (pc[p] \notin {"del_dns", "del_delete"} \/ pc'[p] = pc[p]) =>
            (loc'[p].req.op = "delete" => loc'[p].dnsRequests = loc[p].dnsRequests)]_vars

\* the DNS delete was sent and took the record set away, and the record is
\* still in the store
C22_Witness ==
  \E p \in Procs :
    /\ pc[p] = "del_delete" /\ loc[p].readDnsCreated
    /\ loc[p].dnsRequests = 1 /\ loc[p].dnsApplied = 1 /\ loc[p].zoneChanges = 1
    /\ Doc(loc[p].id) # {}
    /\ RRSet(dns, fqdn(loc[p].subdomain), loc[p].recordType) = {}

\* the labels of the registry: [a-z0-9-]{3,63}, no hyphen first or last, not
\* one of the reserved names
IsLabel(s) ==
  /\ Len(s) >= 3 /\ Len(s) <= 63
  /\ \A i \in 1..Len(s) : s[i] \in LowerLetters \cup Digits \cup {"-"}
  /\ s[1] # "-" /\ s[Len(s)] # "-"
  /\ s \notin {<<"w","w","w">>, <<"m","a","i","l">>, <<"f","t","p">>,
               <<"a","d","m","i","n">>, <<"r","o","o","t">>, <<"a","p","i">>,
               <<"n","s","1">>, <<"n","s","2">>}

LabelErrors ==
  {"Subdomain name is required", "Subdomain must be between 3 and 63 characters",
   "Subdomain can only contain lowercase letters, numbers, and hyphens",
   "Subdomain cannot start or end with a hyphen", "This subdomain name is reserved"}

\* C23 as claimed: the validator returns valid, with the trimmed lowercased
\* value, for the strings that are labels, and invalid with a reason for
\* every other string and for every value that is not a string.
C23_ValidateLabelAsClaimed ==
  (last.op = "validateSubdomainName") =>
    IF IsString(last.loc.req.name) /\ IsLabel(last.loc.req.name.v)
      THEN /\ last.available /\ last.error = "null"
           /\ last.loc.subdomain = ToLowerCase(Trim(last.loc.req.name.v))
      ELSE ~last.available /\ last.error \in LabelErrors

\* C23 as amended: the validator returns a result for every input; it
\* returns valid, with the trimmed lowercased value, for the strings whose
\* trimmed lowercased form is a label, and invalid with a reason for every
\* other string and for every value that is not a string.
C23_ValidateLabel ==
  (last.op = "validateSubdomainName") =>
    IF IsString(last.loc.req.name) /\ IsLabel(ToLowerCase(Trim(last.loc.req.name.v)))
      THEN /\ last.available /\ last.error = "null"
           /\ last.loc.subdomain = ToLowerCase(Trim(last.loc.req.name.v))
           /\ IsLabel(last.loc.subdomain)
      ELSE /\ ~last.available /\ last.error \in LabelErrors
           /\ last.loc.subdomain = << >>

\* a name of 63 capitals between white space is valid, as 63 small letters
C23_Witness ==
  /\ last.op = "validateSubdomainName" /\ last.available
  /\ Len(last.loc.req.name.v) = MaxLabelLen + 2
  /\ Len(last.loc.subdomain) = MaxLabelLen
  /\ last.loc.subdomain # Trim(last.loc.req.name.v)

\* C24: the content a create sends for a CNAME record, for every target the
\* validator accepted (a bare domain name, or one given with http(s):// or a
\* final slash), is a domain name followed by exactly one '.', and a target
\* that ends with '.' is sent as it is.
C24_CnameWireContent ==
  \A p \in Procs :
    (pc[p] = "post_add" /\ loc[p].recordType = "CNAME" /\ loc[p].dnsRequests = 1) =>
      LET content == targetWithDot(loc[p].target) IN
        /\ validateURL(loc[p].req.target).valid
        /\ EndsWith(content, <<".">>)
        /\ isFQDN(SubSeq(content, 1, Len(content) - 1))
        /\ EndsWith(loc[p].target, <<".">>) => content = loc[p].target
        /\ loc[p].dnsApplied = 1 =>
             RRSet(dns, fqdn(loc[p].subdomain), "CNAME") =
               {[name |-> fqdn(loc[p].subdomain), type |-> "CNAME",
                 ttl |-> RecordTtl, content |-> content]}

\* the records of all the pages the client has taken, in the order it got them
RECURSIVE Flatten(_)
Flatten(pages) ==
  IF pages = << >> THEN << >> ELSE Head(pages) \o Flatten(Tail(pages))

\* C25: while a client pages through the list (limit 1 or more, startAfter
\* the lastId of the page before, nothing created, changed or deleted
\* meanwhile), no page holds more records than the limit, the records it has
\* got are records it may see, each one once, in the order of createdAt from
\* the newest on, every page before the last is full, the walk takes no more
\* than (records / limit) + 1 pages, and once a page says hasMore = false the
\* client has got every record it may see.
C25_PaginationComplete ==
  walk.active =>
    LET seen == Flatten(walk.pages)
        limitNum == ParseInt(walk.limit)
        visible == ListScope(verifyAuthToken(walk.cred).user)
    IN /\ \A i \in 1..Len(walk.pages) : Len(walk.pages[i]) <= limitNum
       /\ \A i \in 1..Len(seen) : seen[i] \in visible
       /\ \A i \in 1..Len(seen) : \A j \in 1..Len(seen) :
            i < j => /\ seen[i].id # seen[j].id
                     /\ seen[i].createdAt >= seen[j].createdAt
       /\ \A i \in 1..(Len(walk.pages) - 1) : Len(walk.pages[i]) = limitNum
       /\ Len(walk.pages) <= (Cardinality(visible) \div limitNum) + 1
       /\ ~walk.done => Len(seen) = Len(walk.pages) * limitNum
       /\ walk.done => /\ {seen[i] : i \in 1..Len(seen)} = visible
                        /\ Len(walk.pages) > 0
                        /\ Len(walk.pages[Len(walk.pages)]) < limitNum

\* an admin has paged through three records of two owners and three times,
\* two at a time: a full page and a last page of one
C25_Witness ==
  /\ walk.active /\ walk.done /\ walk.cred = "tok-admin"
  /\ Len(walk.pages) = 2
  /\ Len(walk.pages[1]) = 2 /\ Len(walk.pages[2]) = 1
  /\ Cardinality(store) = 3
  /\ \E d \in store : \E e \in store : d.userId # e.userId
  /\ \E d \in store : \E e \in store : d.id # e.id /\ d.createdAt = e.createdAt
  /\ \E d \in store : \E e \in store : d.createdAt < e.createdAt

\* the limit of the plan: 10 requests per 15 minutes per IP
DocumentedRateLimit == 10

\* the creates of this address that the limiter has counted in its window
Counted(ip) ==
  IF ip \in DOMAIN rateLimit /\ now <= rateLimit[ip].resetTime
    THEN rateLimit[ip].count ELSE 0

\* C26: a create of a signed-in caller is answered 429 exactly when its
\* address has had 10 creates counted in the running window of 15 minutes
\* (the 11th is the first 429), and a create answered 429 has sent no DNS
\* request and written nothing.
C26_CreateRateLimit ==
  [][(/\ last = NoEvent /\ last'.op = "create"
      /\ pc[last'.p] = "idle"
      /\ ~BadCredential(last'.loc.req.cred)) =>
       /\ (last'.status = 429) = (Counted(last'.loc.req.ip) >= DocumentedRateLimit)
       /\ last'.status = 429 =>
            /\ last'.loc.dnsRequests = 0 /\ last'.loc.storeWrites = 0
            /\ store' = store /\ dns' = dns /\ nextId' = nextId]_vars

\* the ids of the documents of a store
IdsOf(docs) == {d.id : d \in docs}

\* C27: the handler of a create that passed the validations and the
\* uniqueness check sends its one DNS upsert and takes the outcome in a step
\* that leaves the store alone: dnsCreated is true with dnsError null exactly
\* when the API took the upsert (and then the zone holds the record), else
\* dnsCreated is false, dnsError is the message of the failure and the zone
\* is as it was.  A document enters the store only in the step after that,
\* with the dnsCreated and dnsError of that outcome; so no record is in the
\* store while its upsert is under way.
C27_CreateOrdering ==
  [][/\ \A p \in Procs :
          /\ (pc[p] = "post_query" /\ pc'[p] # "post_query") =>
               /\ pc'[p] \in {"idle", "post_dns"}
               /\ store' = store /\ dns' = dns
               /\ loc'[p].dnsRequests = 0
          /\ (pc[p] = "post_dns" /\ pc'[p] # "post_dns") =>
               /\ pc'[p] = "post_add"
               /\ store' = store
               /\ loc[p].dnsRequests = 0 /\ loc'[p].dnsRequests = 1
               /\ loc'[p].dnsCreated = (loc'[p].dnsApplied = 1)
               /\ IF loc'[p].dnsCreated
                    THEN /\ loc'[p].dnsError = "null"
                         /\ \E rr \in dns' :
                              /\ rr.name = fqdn(loc[p].subdomain)
                              /\ rr.type = loc[p].recordType
                              /\ rr.content = UpsertContent(rr.type, loc[p].target)
                    ELSE /\ loc'[p].dnsError \in DnsFailures
                         /\ dns' = dns
          /\ (pc[p] = "post_add" /\ pc'[p] # "post_add") =>
               /\ pc'[p] = "idle"
               /\ dns' = dns
               /\ loc[p].dnsRequests = 1
               /\ \A d \in store' : d.id \notin IdsOf(store) =>
                    /\ d.dnsCreated = loc[p].dnsCreated
                    /\ d.dnsError = loc[p].dnsError
                    /\ d.dnsCreated = (loc[p].dnsApplied = 1)
                    /\ d.subdomainName = loc[p].subdomain
     /\ IdsOf(store') \subseteq IdsOf(store) \/
          \E p \in Procs : pc[p] = "post_add" /\ pc'[p] = "idle"]_vars

\* the upsert of a create went through and its record is not in the store yet
C27_Witness ==
  \E p \in Procs :
    /\ pc[p] = "post_add" /\ loc[p].req.op = "create"
    /\ loc[p].dnsRequests = 1 /\ loc[p].dnsApplied = 1 /\ loc[p].dnsCreated
    /\ QueryByName(loc[p].subdomain) = {}
    /\ RRSet(dns, fqdn(loc[p].subdomain), loc[p].recordType) # {}

\* the label a requested name stands for
Normalized(name) == ToLowerCase(Trim(name))

\* C28: the label of every record is the trimmed lowercased form of the name
\* its create asked for, and it is that form that the uniqueness query of a
\* create looks up, that the DNS upsert names and that a check looks up: a
\* create, one request after another, of a name whose trimmed lowercased form
\* is the label of a record is answered 409 when the store answers, however
\* the name is written, and a check of it says not available.
C28_NormalizedUniqueness ==
  [][/\ \A d \in store' :
          /\ d.subdomainName = Normalized(d.subdomainName)
          /\ IsLabel(d.subdomainName)
     /\ \A p \in Procs :
          /\ (pc[p] = "post_query" /\ pc'[p] # "post_query"
               /\ (pc'[p] = "idle" => last'.loc.failedCall # "query")) =>
               IF \E d \in store : d.subdomainName = Normalized(loc[p].req.name.v)
                 THEN /\ pc'[p] = "idle" /\ last'.status = 409
                      /\ last'.error = "This subdomain is already taken"
                      /\ store' = store /\ dns' = dns
                 ELSE pc'[p] = "post_dns"
          /\ (pc[p] = "post_dns" /\ pc'[p] = "post_add" /\ dns' # dns) =>
               \A rr \in dns' \ dns : rr.name = fqdn(Normalized(loc[p].req.name.v))
          /\ (pc[p] = "post_add" /\ pc'[p] = "idle") =>
               \A d \in store' : d.id \notin IdsOf(store) =>
                 d.subdomainName = Normalized(loc[p].req.name.v)
     /\ (last = NoEvent /\ last'.op = "check" /\ last'.status = 200
         /\ validateSubdomainName(last'.loc.req.name).valid) =>
          last'.available =
            (\A d \in store : d.subdomainName # Normalized(last'.loc.req.name.v))]_vars

\* a create of " Abc" is answered 409 because of the record with label abc
C28_Witness ==
  /\ last.op = "create" /\ last.status = 409
  /\ last.loc.req.name.v # Normalized(last.loc.req.name.v)
  /\ \E d \in store :
       /\ d.subdomainName = Normalized(last.loc.req.name.v)
       /\ d.subdomainName # last.loc.req.name.v
       /\ RRSet(dns, fqdn(d.subdomainName), d.recordType) # {}

\* C29: while every call to the DNS API and to the store succeeds, whenever
\* no request is under way the names that hold a record set in the zone are
\* the names fqdn(label) of the records in the store: no record set of a
\* label without a record, and no record without its record set.
C29_QuiescentConsistency ==
  Quiescent =>
    {rr.name : rr \in dns} = {fqdn(d.subdomainName) : d \in store}

\* C30: with requests one after another, when a delete is answered 200 and
\* its DNS delete, if it sent one, was taken, the zone holds no record set
\* for the name of the deleted record (also when an upsert for the record
\* was taken once and the upsert of the latest update failed).
C30_DeleteLeavesNoStaleDns ==
  (/\ last.op = "delete" /\ last.status = 200
   /\ last.loc.dnsApplied = last.loc.dnsRequests)
  => \A rr \in dns : rr.name # fqdn(last.loc.subdomain)

\* C31: in every reachable state every persisted record has dnsCreated true
\* exactly when its dnsError is null: a write that follows a successful
\* upsert leaves no error message of an earlier failed one on the record.
C31_FlagCoherence ==
  \A d \in store : d.dnsCreated <=> (d.dnsError = "null")

\* a delete read the record while its upsert had failed, and an update that
\* overlapped it has since written the record after a successful upsert
C31_Witness ==
  \E p \in Procs : \E d \in store :
    /\ pc[p] = "del_delete"
    /\ loc[p].id = d.id
    /\ ~loc[p].readDnsCreated
    /\ d.dnsCreated
    /\ d.dnsError = "null"
    /\ d.updatedAt # NoTime

\* the answer the order of checks gives a request for one record, from what
\* the store holds when it is read: 401 without a valid credential, 404 for a
\* missing id, 403 for a caller who is neither admin nor owner, 400 for an
\* update without a valid target for the record's type, and 0 for a request
\* that passes every check
PrecedenceStatus(r) ==
  LET auth == verifyAuthToken(r.cred) IN
    IF ~auth.ok THEN 401
    ELSE IF Doc(r.id) = {} THEN 404
    ELSE LET d == CHOOSE x \in Doc(r.id) : TRUE IN
      IF ~auth.user.isAdmin /\ d.userId # auth.user.uid THEN 403
      ELSE IF r.op = "update" /\
              (~Truthy(r.target) \/
               (d.recordType = "A" /\ ~validateIP(r.target).valid) \/
               (d.recordType = "CNAME" /\ ~validateURL(r.target).valid)) THEN 400
      ELSE 0

C33_RejectedMutationNoEffect ==
  [][(/\ last'.op \in {"update", "delete"}
      /\ last'.status \in {400, 403, 404})
     => /\ pc[last'.p] = "idle"
        /\ store' = store
        /\ dns' = dns
        /\ nextId' = nextId
        /\ last'.loc.dnsRequests = 0
        /\ last'.loc.storeWrites = 0]_vars

\* a delete by a user who is neither owner nor admin was answered 403 while
\* the record is in the store and its record set is in the zone
C33_Witness ==
  /\ last.op = "delete"
  /\ last.status = 403
  /\ \E d \in Doc(last.loc.req.id) :
       /\ d.dnsCreated
       /\ RRSet(dns, fqdn(d.subdomainName), d.recordType) # {}

\* C34: every persisted record has a recordType of A or CNAME, a label that
\* validateSubdomainName accepts and a target that the validator of its
\* recordType accepts; so an update of a persisted record always has a target
\* validator to apply and is never answered 500 for lack of one.
C34_RecordWellFormed ==
  /\ \A d \in store :
       /\ d.recordType \in {"A", "CNAME"}
       /\ validateSubdomainName(Str(d.subdomainName)).valid
       /\ d.recordType = "A" => validateIP(Str(d.targetUrl)).valid
       /\ d.recordType = "CNAME" => validateURL(Str(d.targetUrl)).valid
       /\ PatchTargetValidation(d.recordType, Str(d.targetUrl)) # {}
  /\ last.loc.failedCall # "validate"

\* the update of a CNAME record has been answered 200 and its new target is
\* on the record
C34_Witness ==
  /\ last.op = "update"
  /\ last.status = 200
  /\ \E d \in Doc(last.loc.id) :
       /\ d.recordType = "CNAME"
       /\ d.targetUrl = last.loc.target
       /\ d.targetUrl = S_host

\* the calls of checkRateLimit for one identifier, in the order they were made
ChecksOf(calls, identifier) ==
  SelectSeq(calls, LAMBDA c : c.fn = "checkRateLimit" /\ c.identifier = identifier)

\* the calls conform to the window rule: t0 is the time of the first accepted
\* call of the window (NoTime before the first call) and n the number of calls
\* accepted in it
RECURSIVE WindowRule(_, _, _, _, _)
WindowRule(cs, maxRequests, windowMs, t0, n) ==
  IF cs = << >> THEN TRUE
  ELSE LET c == Head(cs) IN
    IF t0 = NoTime \/ c.t > t0 + windowMs
      THEN /\ c.allowed
           /\ c.count = 1
           /\ WindowRule(Tail(cs), maxRequests, windowMs, c.t, 1)
    ELSE IF n >= maxRequests
      THEN /\ ~c.allowed
           /\ c.count = n
           /\ WindowRule(Tail(cs), maxRequests, windowMs, t0, n)
    ELSE /\ c.allowed => c.count = n + 1
         /\ ~c.allowed => c.count = n
         /\ WindowRule(Tail(cs), maxRequests, windowMs, t0,
                       IF c.allowed THEN n + 1 ELSE n)

\* C35: for every identifier, of the calls of checkRateLimit(identifier,
\* maxRequests, windowMs) made at times that do not go back, at most
\* maxRequests return true from the first accepted call of a window at t0 up
\* to t0 + windowMs inclusive, every further call in that span returns false
\* and leaves the count as it is, and the first call later than t0 + windowMs
\* returns true and starts a window with count 1.
C35_RateLimitWindowBound ==
  \A identifier \in LimiterIds :
    WindowRule(ChecksOf(limiter.calls, identifier),
               limiter.maxRequests, limiter.windowMs, NoTime, 0)

\* an identifier was refused at the end of its window, t0 + windowMs, and
\* accepted with count 1 a millisecond later
C35_Witness ==
  \E i, j, k \in 1..Len(limiter.calls) :
    LET first == limiter.calls[i]
        refused == limiter.calls[j]
        again == limiter.calls[k]
    IN /\ i < j /\ j < k
       /\ first.fn = "checkRateLimit" /\ first.allowed /\ first.count = 1
       /\ refused.fn = "checkRateLimit" /\ refused.identifier = first.identifier
       /\ ~refused.allowed /\ refused.t = first.t + limiter.windowMs
       /\ again.fn = "checkRateLimit" /\ again.identifier = first.identifier
       /\ again.allowed /\ again.count = 1 /\ again.t = refused.t + 1

\* the results checkRateLimit gives when these calls are made, one after the
\* other, on this Map
RECURSIVE Replay(_, _, _, _)
Replay(cs, maxRequests, windowMs, map) ==
  IF cs = << >> THEN << >>
  ELSE LET c == Head(cs) IN
    IF c.fn = "cleanupRateLimit"
      THEN Replay(Tail(cs), maxRequests, windowMs, cleanupRateLimit(map, c.t))
    ELSE LET result == checkRateLimit(map, c.identifier, maxRequests, windowMs, c.t) IN
      <<result.allowed>> \o Replay(Tail(cs), maxRequests, windowMs, result.map)

\* the results that were given to the calls of checkRateLimit among these
Results(cs) ==
  LET checks == SelectSeq(cs, LAMBDA c : c.fn = "checkRateLimit") IN
    [i \in 1..Len(checks) |-> checks[i].allowed]

\* a history without the calls of checkRateLimit for the other identifiers
WithoutOthers(calls, identifier) ==
  SelectSeq(calls, LAMBDA c : c.fn = "checkRateLimit" => c.identifier = identifier)

\* C36: the results checkRateLimit gave to the calls for an identifier are the
\* results it gives when the calls for the other identifiers are left out of
\* the history; so two histories that agree on the calls for an identifier
\* give the same results for it.
C36_RateLimitIsolation ==
  \A identifier \in LimiterIds :
    LET own == WithoutOthers(limiter.calls, identifier) IN
      Results(own) = Replay(own, limiter.maxRequests, limiter.windowMs, << >>)

\* an identifier is accepted at the time another one, that has used up its
\* window, is refused
C36_Witness ==
  \E i, j \in 1..Len(limiter.calls) :
    LET refused == limiter.calls[i]
        other == limiter.calls[j]
    IN /\ i < j
       /\ refused.fn = "checkRateLimit" /\ ~refused.allowed
       /\ other.fn = "checkRateLimit" /\ other.allowed
       /\ other.identifier # refused.identifier
       /\ other.t = refused.t

\* a history without the calls of cleanupRateLimit
WithoutCleanup(calls) == SelectSeq(calls, LAMBDA c : c.fn = "checkRateLimit")

\* C38: the results checkRateLimit gave in a history with calls of
\* cleanupRateLimit at any points are the results it gives when the cleanups
\* are left out; and a cleanup has deleted only entries whose window had
\* expired (now > resetTime).
C38_CleanupTransparency ==
  /\ Results(limiter.calls) =
       Replay(WithoutCleanup(limiter.calls), limiter.maxRequests, limiter.windowMs, << >>)
  /\ \A i \in 1..Len(limiter.calls) :
       \A e \in limiter.calls[i].removed : limiter.calls[i].t > e.resetTime

\* a cleanup deleted the expired entry of an identifier and left the entry of
\* another, and both identifiers have called checkRateLimit since
C38_Witness ==
  \E i, j, k \in 1..Len(limiter.calls) :
    LET cleanup == limiter.calls[i]
        after == limiter.calls[j]
        kept == limiter.calls[k]
    IN /\ i < j /\ i < k
       /\ cleanup.fn = "cleanupRateLimit"
       /\ after.fn = "checkRateLimit" /\ after.allowed /\ after.count = 1
       /\ \E e \in cleanup.removed : e.identifier = after.identifier
       /\ kept.fn = "checkRateLimit" /\ ~kept.allowed
       /\ \A e \in cleanup.removed : e.identifier # kept.identifier

\* the records visible to the caller of a list response that come after the
\* page it returned
AfterPage(event) ==
  LET visible == ListScope(event.loc.user)
      page == event.subdomains
  IN IF page = << >> THEN StartAfter(visible, event.loc.startDoc)
     ELSE StartAfter(visible, {page[Len(page)]})

\* C37: a list response has hasMore = true only if a record visible to the
\* caller comes after the page it returned; so no page that a client asked
\* for because hasMore was true is empty.
C37_HasMoreAccuracy ==
  /\ (last.op = "list" /\ last.status = 200 /\ last.hasMore) => AfterPage(last) # {}
  /\ \A i \in 2..Len(walk.pages) : walk.pages[i] # << >>

====
